---- MODULE Spec2Model ----
(***************************************************************************)
(* LetRecovery: the detection/probe layer.                                 *)
(*   core/system_info.rs    SystemInfo::collect and its five detectors     *)
(*   core/hardware_info.rs  HardwareInfo::collect, the Registry Accessor   *)
(*                          and the storage / display detectors            *)
(* Every detector runs as a sequence of steps, one per operating-system    *)
(* call, so that the handles held between two calls are visible.  The      *)
(* machine the probe runs on is the variable world, drawn in Init and      *)
(* left alone: a collection is a one-shot snapshot of one machine.         *)
(*                                                                         *)
(* Text is a sequence of character codes (a Rust String: Unicode scalar    *)
(* values; a wide string: UTF-16 code units); registry data and device     *)
(* buffers are sequences of bytes.  Registry key paths, value names and    *)
(* file names, which the code never takes apart, are TLA+ strings.         *)
(***************************************************************************)
EXTENDS Integers, Sequences, FiniteSets, TLC

VARIABLES
    world,      \* the machine: files, environment, registry, firmware, network
    pc,         \* control location of the collection in progress ("idle": none)
    handles,    \* every OS handle opened so far that matters: [kind, state]
    hkey,       \* the local holding the handle of the detector in progress
    calls,      \* the OS calls made by the collection in progress, in order
    loc,        \* the locals of SystemInfo::collect and of its detectors
    sysResult,  \* what the last SystemInfo::collect returned
    rr,         \* the frame of read_registry_string / read_registry_dword
    hw,         \* the locals of HardwareInfo::collect and of its detectors
    info,       \* the HardwareInfo being filled in by HardwareInfo::collect
    hwResult,   \* what the last HardwareInfo::collect returned
    fmt,        \* format_bytes: its argument and, once called, its result
    app         \* the App of the hardware panel: the three values it holds

sysVars == <<loc, sysResult>>
osVars == <<handles, hkey, calls>>
hwVars == <<rr, hw, info, hwResult>>
vars == <<world, pc, handles, hkey, calls, loc, sysResult, rr, hw, info, hwResult,
          fmt, app>>

(***************************************************************************)
(* Text helpers                                                            *)
(***************************************************************************)

\* str::to_uppercase on the ASCII range ('a'..'z' are 97..122)
to_uppercase(s) ==
    [i \in 1..Len(s) |-> IF s[i] \in 97..122 THEN s[i] - 32 ELSE s[i]]

\* char::is_whitespace: the Unicode White_Space code points
IsWhitespace(c) ==
    c \in (9..13) \cup {32, 133, 160, 5760, 8232, 8233, 8239, 8287, 12288}
          \cup (8192..8202)

\* the least element of a non-empty set of integers
Least(S) == CHOOSE x \in S : \A y \in S : x <= y

\* str::trim: without the leading and the trailing whitespace
trim(s) ==
    LET keep == {i \in 1..Len(s) : ~IsWhitespace(s[i])} IN
    IF keep = {} THEN <<>>
    ELSE SubSeq(s, Least(keep), CHOOSE x \in keep : \A y \in keep : y <= x)

\* s.split(c).next().unwrap_or(""): the part of s before the first c
split_first(s, c) ==
    LET at == {i \in 1..Len(s) : s[i] = c} IN
    IF at = {} THEN s ELSE SubSeq(s, 1, Least(at) - 1)

\* String::from_utf16_lossy: a surrogate pair (high 55296..56319, then low
\* 56320..57343) becomes one scalar value, a lone surrogate becomes U+FFFD
\* (65533), every other unit is kept
from_utf16_lossy(u) ==
    LET IsHigh(i) == i \in 1..Len(u) /\ u[i] \in 55296..56319
        IsLow(i) == i \in 1..Len(u) /\ u[i] \in 56320..57343
        Second(i) == IsLow(i) /\ IsHigh(i - 1)
        At(i) == IF IsHigh(i) /\ IsLow(i + 1)
                 THEN 65536 + (u[i] - 55296) * 1024 + (u[i + 1] - 56320)
                 ELSE IF IsHigh(i) \/ IsLow(i) THEN 65533 ELSE u[i]
        firsts == SelectSeq([i \in 1..Len(u) |-> i], LAMBDA i : ~Second(i))
    IN [k \in 1..Len(firsts) |-> At(firsts[k])]

\* the positions at which pat occurs in s
Occurrences(s, pat) ==
    {i \in 1..(Len(s) - Len(pat) + 1) : SubSeq(s, i, i + Len(pat) - 1) = pat}

\* str::contains
contains(s, pat) == Occurrences(s, pat) # {}

\* str::replace: every non-overlapping occurrence of from, left to right
RECURSIVE ReplaceFrom(_, _, _, _)
ReplaceFrom(s, from, to, start) ==
    LET at == {i \in Occurrences(s, from) : i >= start} IN
    IF at = {} THEN SubSeq(s, start, Len(s))
    ELSE SubSeq(s, start, Least(at) - 1) \o to
             \o ReplaceFrom(s, from, to, Least(at) + Len(from))

\* the first occurrence only
replace_first(s, from, to) ==
    LET at == Occurrences(s, from) IN
    IF at = {} THEN s
    ELSE SubSeq(s, 1, Least(at) - 1) \o to \o SubSeq(s, Least(at) + Len(from), Len(s))

replace(s, from, to) == ReplaceFrom(s, from, to, 1)

\* format!("{}", n) for an unsigned integer
RECURSIVE IntToStr(_)
IntToStr(n) ==
    IF n < 10 THEN <<48 + n>> ELSE IntToStr(n \div 10) \o <<48 + (n % 10)>>

\* the value of a string of decimal digits
RECURSIVE DigitsValue(_)
DigitsValue(d) ==
    IF d = <<>> THEN 0
    ELSE 10 * DigitsValue(SubSeq(d, 1, Len(d) - 1)) + (d[Len(d)] - 48)

\* a digit string is above another of the same length
DigitsAbove(d, m) ==
    \E i \in 1..Len(d) : d[i] > m[i] /\ \A j \in 1..(i - 1) : d[j] = m[j]

\* str::parse::<u32>: an optional '+' (43), then one or more decimal digits,
\* no other character; a value above u32::MAX = 4294967295 is an error
parse_u32(s) ==
    LET d == IF s # <<>> /\ s[1] = 43 THEN Tail(s) ELSE s
        nz == {i \in 1..Len(d) : d[i] # 48}
        sig == IF nz = {} THEN <<>> ELSE SubSeq(d, Least(nz), Len(d))
    IN IF d = <<>> \/ \E i \in 1..Len(d) : d[i] \notin 48..57
       THEN [ok |-> FALSE, val |-> 0]
       ELSE IF Len(sig) > 10
               \/ (Len(sig) = 10
                      /\ DigitsAbove(sig, <<52, 50, 57, 52, 57, 54, 55, 50, 57, 53>>))
       THEN [ok |-> FALSE, val |-> 0]
       ELSE [ok |-> TRUE, val |-> DigitsValue(sig)]

\* String::from_utf8_lossy, one step: the number of bytes taken at the head
\* of b and the character they give; an ill-formed sequence gives U+FFFD
\* (65533) for its maximal well-formed prefix
Utf8Step(b) ==
    LET B(k) == IF k <= Len(b) THEN b[k] ELSE -1
        Cont(x) == x \in 128..191
        Second3 == IF B(1) = 224 THEN 160..191
                   ELSE IF B(1) = 237 THEN 128..159 ELSE 128..191
        Second4 == IF B(1) = 240 THEN 144..191
                   ELSE IF B(1) = 244 THEN 128..143 ELSE 128..191
    IN IF B(1) < 128 THEN [len |-> 1, ch |-> B(1)]
       ELSE IF B(1) \in 194..223
       THEN IF Cont(B(2))
            THEN [len |-> 2, ch |-> (B(1) - 192) * 64 + (B(2) - 128)]
            ELSE [len |-> 1, ch |-> 65533]
       ELSE IF B(1) \in 224..239
       THEN IF B(2) \notin Second3 THEN [len |-> 1, ch |-> 65533]
            ELSE IF ~Cont(B(3)) THEN [len |-> 2, ch |-> 65533]
            ELSE [len |-> 3,
                  ch |-> (B(1) - 224) * 4096 + (B(2) - 128) * 64 + (B(3) - 128)]
       ELSE IF B(1) \in 240..244
       THEN IF B(2) \notin Second4 THEN [len |-> 1, ch |-> 65533]
            ELSE IF ~Cont(B(3)) THEN [len |-> 2, ch |-> 65533]
            ELSE IF ~Cont(B(4)) THEN [len |-> 3, ch |-> 65533]
            ELSE [len |-> 4,
                  ch |-> (B(1) - 240) * 262144 + (B(2) - 128) * 4096
                            + (B(3) - 128) * 64 + (B(4) - 128)]
       ELSE [len |-> 1, ch |-> 65533]

RECURSIVE from_utf8_lossy(_)
from_utf8_lossy(b) ==
    IF b = <<>> THEN <<>>
    ELSE LET st == Utf8Step(b) IN
         <<st.ch>> \o from_utf8_lossy(SubSeq(b, st.len + 1, Len(b)))

\* a zero-initialised buffer after the OS copied data to its start
BufByte(data, i) == IF i <= Len(data) THEN data[i] ELSE 0

\* the i-th little-endian u16 of the buffer (i from 1)
BufWide(data, i) == BufByte(data, 2 * i - 1) + 256 * BufByte(data, 2 * i)

\* the little-endian u32 at the start of the buffer
BufDword(data) ==
    BufByte(data, 1) + 256 * BufByte(data, 2) + 65536 * BufByte(data, 3)
        + 16777216 * BufByte(data, 4)

\* usize::saturating_sub
saturating_sub(a, b) == IF a >= b THEN a - b ELSE 0

(***************************************************************************)
(* The operating system, as the probe sees it                              *)
(***************************************************************************)

REG_SZ == 1
REG_DWORD == 4
ERROR_INVALID_FUNCTION == 1

\* Path::exists; Windows paths are case-insensitive, world.fs holds the
\* drive designators in upper case
Exists(p) == [drive |-> to_uppercase(p.drive), file |-> p.file] \in world.fs

\* RegOpenKeyExW(HKEY_LOCAL_MACHINE, key, 0, KEY_READ, &mut hkey) succeeds
RegOpenKeyExW(key) == key \in world.keys

\* RegQueryValueExW into a buffer of cap bytes: a missing value fails
\* (ERROR_FILE_NOT_FOUND = 2), data larger than the buffer fails with
\* ERROR_MORE_DATA = 234 and reports the size needed, otherwise the data is
\* copied and its type and size are reported
RegQueryValueExW(key, name, cap) ==
    IF <<key, name>> \notin DOMAIN world.vals
    THEN [ok |-> FALSE, err |-> 2, type |-> 0, size |-> cap, data |-> <<>>]
    ELSE LET v == world.vals[<<key, name>>] IN
         IF Len(v.data) > cap
         THEN [ok |-> FALSE, err |-> 234, type |-> v.type,
               size |-> Len(v.data), data |-> <<>>]
         ELSE [ok |-> TRUE, err |-> 0, type |-> v.type,
               size |-> Len(v.data), data |-> v.data]

Call(api, arg) == [api |-> api, arg |-> arg]

\* a successful open hands out a fresh handle, kept in the local hkey
OpenHandle(kind) ==
    /\ handles' = Append(handles, [kind |-> kind, state |-> "open"])
    /\ hkey' = Len(handles) + 1

\* RegCloseKey / CloseHandle of the handle h
CloseHandle(h) ==
    /\ handles' = [handles EXCEPT ![h].state =
                      IF @ = "open" THEN "closed" ELSE "double"]
    /\ UNCHANGED hkey

OpenCount == Cardinality({i \in 1..Len(handles) : handles[i].state = "open"})

Called(api) == \E i \in 1..Len(calls) : calls[i].api = api
CallCount(api) == Cardinality({i \in 1..Len(calls) : calls[i].api = api})
CalledWith(api, arg) ==
    \E i \in 1..Len(calls) : calls[i].api = api /\ calls[i].arg = arg

(***************************************************************************)
(* Names the code uses                                                     *)
(***************************************************************************)

FBWF == "\\Windows\\System32\\drivers\\fbwf.sys"
WINPESHL == "\\Windows\\System32\\winpeshl.ini"
MININT == "\\MININT"
EFI == "\\EFI"

DriveX == <<88, 58>>          \* "X:"
DriveC == <<67, 58>>          \* "C:"
NoDrive == <<>>               \* a path relative to the current drive's root

\* format!("{}{}", drive, file) as a path
Path(drive, file) == [drive |-> drive, file |-> file]

\* the three roots get_boot_mode probes, in the order of the || chain
EfiMarkers == <<Path(NoDrive, EFI), Path(DriveC, EFI), Path(DriveX, EFI)>>

KEY_TPM_SERVICE == "SYSTEM\\CurrentControlSet\\Services\\TPM"
KEY_TPM_ACPI == "SYSTEM\\CurrentControlSet\\Enum\\ACPI\\MSFT0101"
KEY_TPM_SOFTWARE == "SOFTWARE\\Microsoft\\Tpm"
KEY_SECURE_BOOT == "SYSTEM\\CurrentControlSet\\Control\\SecureBoot\\State"
KEY_MININT == "SYSTEM\\CurrentControlSet\\Control\\MiniNT"

\* check_network's endpoints, in list order
addresses == <<"223.5.5.5:53", "119.29.29.29:53", "8.8.8.8:53", "1.1.1.1:53">>

TPM_BUFFER == 256             \* [0u8; 256]
DWORD_SIZE == 4               \* size_of::<u32>()

KEY_COMPUTER_NAME == "SYSTEM\\CurrentControlSet\\Control\\ComputerName\\ComputerName"
KEY_BIOS == "HARDWARE\\DESCRIPTION\\System\\BIOS"
nt_path == "SOFTWARE\\Microsoft\\Windows NT\\CurrentVersion"

\* format!(r"HARDWARE\DESCRIPTION\System\CentralProcessor\{}", i)
cpu_path(i) == "HARDWARE\\DESCRIPTION\\System\\CentralProcessor\\" \o ToString(i)

Windows10 == <<87, 105, 110, 100, 111, 119, 115, 32, 49, 48>>      \* "Windows 10"
Windows11 == <<87, 105, 110, 100, 111, 119, 115, 32, 49, 49>>      \* "Windows 11"

Version20 == <<50, 46, 48>>   \* "2.0"

(***************************************************************************)
(* The machines the probe is run on                                        *)
(***************************************************************************)

\* the bytes of a wide string, little-endian
Bytes(w) ==
    [i \in 1..(2 * Len(w)) |->
        IF i % 2 = 1 THEN w[(i + 1) \div 2] % 256 ELSE w[i \div 2] \div 256]

\* a well-formed REG_SZ value: the text and its NUL terminator
SzValue(text) == [type |-> REG_SZ, data |-> Bytes(text \o <<0>>)]

\* a REG_SZ value of n bytes: the text, spaces, and a NUL terminator
SzPadded(text, n) ==
    [type |-> REG_SZ,
     data |-> [i \in 1..n |->
                 IF i <= 2 * Len(text) THEN Bytes(text)[i]
                 ELSE IF i > n - 2 \/ i % 2 = 0 THEN 0 ELSE 32]]

DwordValue(n) ==
    [type |-> REG_DWORD,
     data |-> <<n % 256, (n \div 256) % 256, (n \div 65536) % 256,
                (n \div 16777216) % 256>>]

Put(vals, key, name, v) ==
    [p \in DOMAIN vals \cup {<<key, name>>} |->
        IF p = <<key, name>> THEN v ELSE vals[p]]

NoVals == [p \in {} |-> 0]

\* GlobalMemoryStatusEx fails
NoMemory ==
    [ok |-> FALSE, ullTotalPhys |-> 0, ullAvailPhys |-> 0, ullTotalVirtual |-> 0,
     ullAvailVirtual |-> 0, dwMemoryLoad |-> 0]

\* a u32, low byte first
Le32(n) == <<n % 256, (n \div 256) % 256, (n \div 65536) % 256, (n \div 16777216) % 256>>

\* what IOCTL_STORAGE_QUERY_PROPERTY leaves in the buffer: the 36 bytes of the
\* STORAGE_DEVICE_DESCRIPTOR header, then the bytes of tail from offset 36
DescriptorBytes(removable, bus, product, revision, serial, tail) ==
    Le32(36) \o Le32(36 + Len(tail)) \o <<0, 0, removable, 0>> \o Le32(0)
        \o Le32(product) \o Le32(revision) \o Le32(serial) \o Le32(bus) \o Le32(0)
        \o tail

\* PhysicalDrive that cannot be opened
AbsentDrive ==
    [open |-> "fail", property |-> [ok |-> FALSE, data |-> <<>>],
     length |-> [ok |-> FALSE, bytes |-> <<0, 0, 0, 0, 0, 0, 0, 0>>]]

NoDrives == [i \in 1..16 |-> AbsentDrive]

\* the strings of a descriptor: "SSD 1 " at 36, "1.0" at 43, "  S1" at 47
GoodTail == <<83, 83, 68, 32, 49, 32>> \o <<0>> \o <<49, 46, 48>> \o <<0>> \o <<32, 32, 83, 49>> \o <<0>>

\* an NVMe disk of 0x7470C60000 bytes
GoodDrive ==
    [open |-> "ok",
     property |-> [ok |-> TRUE, data |-> DescriptorBytes(0, 17, 36, 43, 47, GoodTail)],
     length |-> [ok |-> TRUE, bytes |-> <<0, 0, 198, 112, 116, 0, 0, 0>>]]

GpuName == <<32, 78, 86, 73, 68, 73, 65, 32, 82, 84, 88, 32>>      \* " NVIDIA RTX "

\* the hardware values of the installed system
RichHardwareVals ==
    LET v == <<
          <<KEY_COMPUTER_NAME, "ComputerName", SzValue(<<80, 67>>)>>,
          <<KEY_BIOS, "SystemManufacturer", SzValue(<<68, 101, 108, 108>>)>>,
          <<KEY_BIOS, "SystemProductName", SzValue(<<88, 80, 83>>)>>,
          <<nt_path, "CurrentBuild", SzValue(<<50, 50, 54, 51, 49>>)>>,
          <<nt_path, "ProductName", SzValue(<<87, 105, 110, 100, 111, 119, 115, 32, 49, 48, 32, 80, 114, 111>>)>>,
          <<nt_path, "DisplayVersion", SzValue(<<50, 51, 72, 50>>)>>,
          <<nt_path, "UBR", DwordValue(3007)>>,
          <<nt_path, "ProductId", SzValue(<<48, 48, 51, 51, 48>>)>>,
          <<nt_path, "RegisteredOwner", SzValue(<<109, 101>>)>>,
          <<nt_path, "InstallDate", DwordValue(1700000000)>>,
          <<cpu_path(0), "ProcessorNameString", SzValue(<<32, 67, 111, 114, 101, 32, 105, 55, 32>>)>>,
          <<cpu_path(0), "VendorIdentifier", SzValue(<<71, 101, 110, 117, 105, 110, 101, 73, 110, 116, 101, 108>>)>>,
          <<cpu_path(0), "~MHz", DwordValue(2400)>>,
          <<cpu_path(1), "ProcessorNameString", SzValue(<<32, 67, 111, 114, 101, 32, 105, 55, 32>>)>>,
          <<KEY_BIOS, "BaseBoardManufacturer", SzValue(<<68, 101, 108, 108>>)>>,
          <<KEY_BIOS, "BaseBoardProduct", SzValue(<<48, 88>>)>>,
          <<KEY_BIOS, "BaseBoardVersion", SzValue(<<65, 48, 48>>)>>,
          <<KEY_BIOS, "BIOSVendor", SzValue(<<68, 101, 108, 108>>)>>,
          <<KEY_BIOS, "BIOSVersion", SzValue(<<49, 46, 50>>)>>,
          <<KEY_BIOS, "BIOSReleaseDate", SzValue(<<48, 49, 47, 48, 50, 47, 50, 48, 50, 51>>)>>,
          <<KEY_BIOS, "SystemBiosVersion", SzValue(<<51, 46, 49>>)>> >>
    IN [p \in {<<v[i][1], v[i][2]>> : i \in 1..Len(v)} |->
           v[CHOOSE i \in 1..Len(v) : <<v[i][1], v[i][2]>> = p][3]]

\* nothing exists, every call fails, the firmware call reports Legacy BIOS
BareWorld ==
    [fs |-> {},
     sysDrive |-> [set |-> FALSE, val |-> <<>>],
     keys |-> {},
     vals |-> NoVals,
     fw |-> [ret |-> 0, err |-> ERROR_INVALID_FUNCTION],
     net |-> {},
     silent |-> {},
     sys |-> [wProcessorArchitecture |-> 0, dwNumberOfProcessors |-> 1],
     mem |-> NoMemory,
     drives |-> NoDrives,
     displays |-> <<>>]

\* an installed UEFI system with a TPM, Secure Boot on and a network
RichWorld ==
    [fs |-> {Path(DriveC, EFI)},
     sysDrive |-> [set |-> TRUE, val |-> DriveC],
     keys |-> {KEY_TPM_SERVICE, KEY_TPM_ACPI, KEY_TPM_SOFTWARE, KEY_SECURE_BOOT,
               KEY_COMPUTER_NAME, KEY_BIOS, nt_path, cpu_path(0), cpu_path(1)},
     vals |-> Put(Put(RichHardwareVals, KEY_TPM_SOFTWARE, "SpecVersion",
                      SzValue(<<50, 46, 48, 44, 32, 48>>)),     \* "2.0, 0"
                  KEY_SECURE_BOOT, "UEFISecureBootEnabled", DwordValue(1)),
     fw |-> [ret |-> 0, err |-> 998],
     net |-> {addresses[1], addresses[3]},
     silent |-> {addresses[2]},
     sys |-> [wProcessorArchitecture |-> 9, dwNumberOfProcessors |-> 4],
     mem |-> [ok |-> TRUE, ullTotalPhys |-> 16384, ullAvailPhys |-> 8192,
              ullTotalVirtual |-> 32768, ullAvailVirtual |-> 20480,
              dwMemoryLoad |-> 50],
     drives |-> [NoDrives EXCEPT ![1] = GoodDrive],
     displays |-> <<[StateFlags |-> 5,
                     DeviceString |-> GpuName \o <<0, 0>>,
                     settings |-> [ok |-> TRUE, dmPelsWidth |-> 1920,
                                   dmPelsHeight |-> 1080,
                                   dmDisplayFrequency |-> 60]]>>]

Baselines == {BareWorld, RichWorld}

\* files and environment the PE detector looks at ("D:" is 68, 58)
PeFiles ==
    {Path(DriveX, FBWF), Path(DriveX, WINPESHL), Path(DriveX, MININT),
     Path(<<68, 58>>, FBWF), Path(<<68, 58>>, WINPESHL)}

SysDrives ==
    {[set |-> FALSE, val |-> <<>>]}
        \cup {[set |-> TRUE, val |-> d] :
                 d \in {DriveX, <<120, 58>>, DriveC, <<68, 58>>}}

PeWorlds ==
    {[BareWorld EXCEPT !.fs = f, !.sysDrive = d,
                       !.keys = IF k THEN {KEY_MININT} ELSE {}] :
        f \in SUBSET PeFiles, d \in SysDrives, k \in BOOLEAN}
    \cup
    {[RichWorld EXCEPT !.fs = RichWorld.fs \cup f, !.sysDrive = d,
                       !.keys = IF k THEN RichWorld.keys \cup {KEY_MININT}
                                     ELSE RichWorld.keys] :
        f \in {{}} \cup {{p} : p \in PeFiles}, d \in SysDrives, k \in BOOLEAN}

\* GetFirmwareEnvironmentVariableW: bytes stored, and the last OS error
FirmwareOutcomes ==
    {[ret |-> 1, err |-> 0]}
        \cup {[ret |-> 0, err |-> e] : e \in {0, 1, 2, 5, 87, 998, 1314}}

BootWorlds ==
    {[b EXCEPT !.fs = {EfiMarkers[i] : i \in m}, !.fw = f] :
        b \in Baselines, m \in SUBSET (1..3), f \in FirmwareOutcomes}

\* contents of the SpecVersion value
SpecVersionValues ==
    {SzValue(<<50, 46, 48, 44, 32, 48>>),            \* "2.0, 0"
     SzValue(<<32, 49, 46, 50, 32, 44, 120>>),       \* " 1.2 ,x"
     SzValue(<<49, 46, 50>>),                        \* "1.2"
     SzValue(<<>>),                                  \* ""
     SzValue(<<44, 50>>),                            \* ",2"
     SzValue(<<55296, 50>>),                         \* a lone surrogate, "2"
     [type |-> REG_SZ, data |-> Bytes(<<50, 46, 48>>)],   \* "2.0", no NUL
     [type |-> REG_SZ, data |-> <<>>],                    \* no data at all
     DwordValue(2),
     SzPadded(<<49, 46, 50, 44>>, TPM_BUFFER),       \* "1.2," filling the buffer
     SzPadded(<<49, 46, 50, 44>>, TPM_BUFFER + 2)}   \* two bytes too large

TpmWorlds ==
    {[b EXCEPT !.keys = (b.keys \ {KEY_TPM_SERVICE, KEY_TPM_ACPI, KEY_TPM_SOFTWARE})
                            \cup k,
               !.vals = Put(b.vals, KEY_TPM_SOFTWARE, "SpecVersion", v)] :
        b \in Baselines,
        k \in SUBSET {KEY_TPM_SERVICE, KEY_TPM_ACPI, KEY_TPM_SOFTWARE},
        v \in SpecVersionValues}
    \cup
    {[b EXCEPT !.keys = (b.keys \ {KEY_TPM_SERVICE, KEY_TPM_ACPI, KEY_TPM_SOFTWARE})
                            \cup k,
               !.vals = NoVals] :
        b \in Baselines,
        k \in SUBSET {KEY_TPM_SERVICE, KEY_TPM_ACPI, KEY_TPM_SOFTWARE}}

\* contents of the UEFISecureBootEnabled value
SecureBootValues ==
    {DwordValue(0), DwordValue(1), DwordValue(2), DwordValue(257),
     [type |-> 3, data |-> <<1, 0, 0, 0>>],          \* REG_BINARY 01 00 00 00
     [type |-> 3, data |-> <<1>>],                   \* REG_BINARY 01
     [type |-> 3, data |-> <<>>],
     SzValue(<<49>>),                                \* the text "1"
     [type |-> 11, data |-> <<1, 0, 0, 0, 0, 0, 0, 0>>]}  \* REG_QWORD 1

SecureBootWorlds ==
    {[b EXCEPT !.keys = IF k THEN b.keys \cup {KEY_SECURE_BOOT}
                             ELSE b.keys \ {KEY_SECURE_BOOT},
               !.vals = Put(b.vals, KEY_SECURE_BOOT, "UEFISecureBootEnabled", v)] :
        b \in Baselines, k \in BOOLEAN, v \in SecureBootValues}
    \cup
    {[b EXCEPT !.keys = b.keys \cup {KEY_SECURE_BOOT}, !.vals = NoVals] :
        b \in Baselines}

\* every split of the endpoints into those that accept, those that refuse at
\* once and those that never answer
NetWorlds ==
    {[b EXCEPT !.net = {addresses[i] : i \in n},
               !.silent = {addresses[i] : i \in m \ n}] :
        b \in Baselines, n \in SUBSET (1..4), m \in SUBSET (1..4)}

SysWorlds == PeWorlds \cup BootWorlds \cup TpmWorlds \cup SecureBootWorlds \cup NetWorlds

(***************************************************************************)
(* SystemInfo::collect (system_info.rs)                                    *)
(***************************************************************************)

NoQuery == [ok |-> FALSE, err |-> 0, type |-> 0, size |-> 0, data |-> <<>>]
NoResult == [ok |-> FALSE, val |-> "none"]

InitLoc ==
    [is_pe |-> FALSE,
     boot |-> NoResult,              \* what get_boot_mode returned
     boot_mode |-> "none",
     tpm_enabled |-> FALSE,
     tpm_version |-> <<>>,
     q |-> NoQuery,                  \* result, type, size and buffer of a query
     secure |-> NoResult,            \* what get_secure_boot returned
     secure_boot |-> FALSE,
     net_i |-> 1,                    \* position of check_network's loop
     elapsed |-> 0,                  \* seconds check_network has been blocked
     is_online |-> FALSE]

\* pub fn collect(): entered
SystemInfo_enter ==
    /\ pc = "idle"
    /\ pc' = "pe_fbwf"
    /\ loc' = InitLoc
    /\ calls' = <<>>
    /\ handles' = SelectSeq(handles, LAMBDA h : h.state # "closed")
    /\ UNCHANGED <<world, fmt, hwVars, hkey, sysResult>>

\* SystemInfo::collect() called on its own
SystemInfo_collect == SystemInfo_enter /\ UNCHANGED app

\* check_pe_environment returns v; collect goes on to get_boot_mode
PeReturn(v) ==
    /\ loc' = [loc EXCEPT !.is_pe = v]
    /\ pc' = "boot_marker"

\* signal 1: X:\Windows\System32\drivers\fbwf.sys
check_pe_fbwf ==
    /\ pc = "pe_fbwf"
    /\ calls' = Append(calls, Call("exists", FBWF))
    /\ IF Exists(Path(DriveX, FBWF))
       THEN PeReturn(TRUE)
       ELSE pc' = "pe_winpeshl" /\ UNCHANGED loc
    /\ UNCHANGED <<world, fmt, app, hwVars, handles, hkey, sysResult>>

\* signal 2: X:\Windows\System32\winpeshl.ini
check_pe_winpeshl ==
    /\ pc = "pe_winpeshl"
    /\ calls' = Append(calls, Call("exists", WINPESHL))
    /\ IF Exists(Path(DriveX, WINPESHL))
       THEN PeReturn(TRUE)
       ELSE pc' = "pe_sysdrive" /\ UNCHANGED loc
    /\ UNCHANGED <<world, fmt, app, hwVars, handles, hkey, sysResult>>

\* signal 3: the SystemDrive variable, upper-cased, is "X:"
check_pe_sysdrive ==
    /\ pc = "pe_sysdrive"
    /\ calls' = Append(calls, Call("env::var", "SystemDrive"))
    /\ IF world.sysDrive.set /\ to_uppercase(world.sysDrive.val) = DriveX
       THEN PeReturn(TRUE)
       ELSE pc' = "pe_minint" /\ UNCHANGED loc
    /\ UNCHANGED <<world, fmt, app, hwVars, handles, hkey, sysResult>>

\* signal 4: X:\MININT
check_pe_minint ==
    /\ pc = "pe_minint"
    /\ calls' = Append(calls, Call("exists", MININT))
    /\ IF Exists(Path(DriveX, MININT))
       THEN PeReturn(TRUE)
       ELSE pc' = "minint_open" /\ UNCHANGED loc
    /\ UNCHANGED <<world, fmt, app, hwVars, handles, hkey, sysResult>>

\* signal 5, check_minint_registry: open the MiniNT key
check_minint_registry_open ==
    /\ pc = "minint_open"
    /\ calls' = Append(calls, Call("RegOpenKeyExW", KEY_MININT))
    /\ IF RegOpenKeyExW(KEY_MININT)
       THEN OpenHandle("key") /\ pc' = "minint_close"
       ELSE pc' = "pe_drive_files" /\ UNCHANGED <<handles, hkey>>
    /\ UNCHANGED <<world, fmt, app, hwVars, loc, sysResult>>

\* check_minint_registry: close the key and return true
check_minint_registry_close ==
    /\ pc = "minint_close"
    /\ calls' = Append(calls, Call("RegCloseKey", KEY_MININT))
    /\ CloseHandle(hkey)
    /\ PeReturn(TRUE)
    /\ UNCHANGED <<world, fmt, app, hwVars, sysResult>>

\* signal 6 looking for fbwf.sys only
check_pe_drive_files_fbwf_only ==
    /\ pc = "pe_drive_files"
    /\ LET d == world.sysDrive IN
       IF ~d.set
       THEN /\ calls' = Append(calls, Call("env::var", "SystemDrive"))
            /\ PeReturn(FALSE)
       ELSE /\ calls' = calls \o <<Call("env::var", "SystemDrive"),
                                   Call("exists", FBWF)>>
            /\ PeReturn(Exists(Path(d.val, FBWF)))
    /\ UNCHANGED <<world, fmt, app, hwVars, handles, hkey, sysResult>>

\* signal 6: the two marker files under the actual SystemDrive
check_pe_drive_files ==
    /\ pc = "pe_drive_files"
    /\ LET d == world.sysDrive IN
       IF ~d.set
       THEN /\ calls' = Append(calls, Call("env::var", "SystemDrive"))
            /\ PeReturn(FALSE)
       ELSE IF Exists(Path(d.val, FBWF))
       THEN /\ calls' = calls \o <<Call("env::var", "SystemDrive"),
                                   Call("exists", FBWF)>>
            /\ PeReturn(TRUE)
       ELSE /\ calls' = calls \o <<Call("env::var", "SystemDrive"),
                                   Call("exists", FBWF), Call("exists", WINPESHL)>>
            /\ PeReturn(Exists(Path(d.val, WINPESHL)))
    /\ UNCHANGED <<world, fmt, app, hwVars, handles, hkey, sysResult>>

\* the marker probe looking at the first path only
FirstMarkerOnly == IF Exists(EfiMarkers[1]) THEN 1 ELSE 0

\* the index of the first EFI marker that exists, 0 when none does
FirstMarker ==
    IF \E i \in 1..Len(EfiMarkers) : Exists(EfiMarkers[i])
    THEN CHOOSE i \in 1..Len(EfiMarkers) :
            /\ Exists(EfiMarkers[i])
            /\ \A j \in 1..(i - 1) : ~Exists(EfiMarkers[j])
    ELSE 0

\* get_boot_mode, method 1: the EFI marker paths, probed left to right
get_boot_mode_marker ==
    /\ pc = "boot_marker"
    /\ LET hit == FirstMarker
           probed == IF hit = 0 THEN Len(EfiMarkers) ELSE hit
       IN /\ calls' = calls \o [i \in 1..probed |-> Call("exists", EFI)]
          /\ IF hit # 0
             THEN /\ loc' = [loc EXCEPT !.boot = [ok |-> TRUE, val |-> "UEFI"]]
                  /\ pc' = "boot_ret"
             ELSE pc' = "boot_firmware" /\ UNCHANGED loc
    /\ UNCHANGED <<world, fmt, app, hwVars, handles, hkey, sysResult>>

\* get_boot_mode where every failure of the firmware call means Legacy
BootModeAnyFailure(result, raw_error) ==
    IF result = 0
    THEN [ok |-> TRUE, val |-> "Legacy"]
    ELSE [ok |-> TRUE, val |-> "UEFI"]

\* get_boot_mode where an unexpected error code is returned as an error
BootModePropagated(result, raw_error) ==
    IF result = 0
    THEN IF raw_error = ERROR_INVALID_FUNCTION
         THEN [ok |-> TRUE, val |-> "Legacy"]
         ELSE [ok |-> FALSE, val |-> "Err"]
    ELSE [ok |-> TRUE, val |-> "UEFI"]

\* get_boot_mode, method 2: what is made of the firmware call's return value
\* and of GetLastError
BootMode(result, raw_error) ==
    IF result = 0
    THEN IF raw_error = ERROR_INVALID_FUNCTION
         THEN [ok |-> TRUE, val |-> "Legacy"]
         ELSE [ok |-> TRUE, val |-> "UEFI"]
    ELSE [ok |-> TRUE, val |-> "UEFI"]

\* get_boot_mode, method 2: GetFirmwareEnvironmentVariableW and its error code
get_boot_mode_firmware ==
    /\ pc = "boot_firmware"
    /\ calls' = Append(calls, Call("GetFirmwareEnvironmentVariableW", ""))
    /\ loc' = [loc EXCEPT !.boot = BootMode(world.fw.ret, world.fw.err)]
    /\ pc' = "boot_ret"
    /\ UNCHANGED <<world, fmt, app, hwVars, handles, hkey, sysResult>>

\* let boot_mode = Self::get_boot_mode()?;
SystemInfo_collect_boot_mode ==
    /\ pc = "boot_ret"
    /\ IF loc.boot.ok
       THEN /\ loc' = [loc EXCEPT !.boot_mode = loc.boot.val]
            /\ pc' = "tpm_service"
            /\ UNCHANGED <<sysResult, calls>>
       ELSE /\ sysResult' = [ok |-> FALSE, val |-> "Err"]
            /\ pc' = "idle"
            /\ loc' = InitLoc
            /\ calls' = <<>>
    /\ UNCHANGED <<world, fmt, app, hwVars, handles, hkey>>

\* get_tpm_info looking the version up whatever check_tpm_registry returned
TpmPresenceUnguarded(tpm_present) ==
    /\ pc' = "version_open"
    /\ loc' = [loc EXCEPT !.tpm_enabled = tpm_present]

\* get_tpm_info once check_tpm_registry returned tpm_present
TpmPresence(tpm_present) ==
    IF tpm_present
    THEN pc' = "version_open" /\ loc' = [loc EXCEPT !.tpm_enabled = TRUE]
    ELSE /\ pc' = "secure_boot_open"
         /\ loc' = [loc EXCEPT !.tpm_enabled = FALSE, !.tpm_version = <<>>]

\* check_tpm_registry: open the TPM service key
check_tpm_registry_service ==
    /\ pc = "tpm_service"
    /\ calls' = Append(calls, Call("RegOpenKeyExW", KEY_TPM_SERVICE))
    /\ IF RegOpenKeyExW(KEY_TPM_SERVICE)
       THEN OpenHandle("key") /\ pc' = "tpm_service_close"
       ELSE pc' = "tpm_acpi" /\ UNCHANGED <<handles, hkey>>
    /\ UNCHANGED <<world, fmt, app, hwVars, loc, sysResult>>

\* check_tpm_registry: close the service key, return true
check_tpm_registry_service_close ==
    /\ pc = "tpm_service_close"
    /\ calls' = Append(calls, Call("RegCloseKey", KEY_TPM_SERVICE))
    /\ CloseHandle(hkey)
    /\ TpmPresence(TRUE)
    /\ UNCHANGED <<world, fmt, app, hwVars, sysResult>>

\* check_tpm_registry: open the ACPI device key, return false when it fails
check_tpm_registry_acpi ==
    /\ pc = "tpm_acpi"
    /\ calls' = Append(calls, Call("RegOpenKeyExW", KEY_TPM_ACPI))
    /\ IF RegOpenKeyExW(KEY_TPM_ACPI)
       THEN OpenHandle("key") /\ pc' = "tpm_acpi_close" /\ UNCHANGED loc
       ELSE TpmPresence(FALSE) /\ UNCHANGED <<handles, hkey>>
    /\ UNCHANGED <<world, fmt, app, hwVars, sysResult>>

\* check_tpm_registry: close the ACPI key, return true
check_tpm_registry_acpi_close ==
    /\ pc = "tpm_acpi_close"
    /\ calls' = Append(calls, Call("RegCloseKey", KEY_TPM_ACPI))
    /\ CloseHandle(hkey)
    /\ TpmPresence(TRUE)
    /\ UNCHANGED <<world, fmt, app, hwVars, sysResult>>

\* get_tpm_version_from_registry returns version; get_tpm_info returns
\* (true, version) and collect goes on to get_secure_boot
VersionReturn(version) ==
    /\ loc' = [loc EXCEPT !.tpm_version = version]
    /\ pc' = "secure_boot_open"

\* the text get_tpm_version_from_registry makes of a successful query: the
\* first size/2 - 1 wide characters, cut before the first comma (44), trimmed
SpecVersionText(q) ==
    LET n == saturating_sub(q.size \div 2, 1)
        wide_str == [i \in 1..n |-> BufWide(q.data, i)]
        version == from_utf16_lossy(wide_str)
    IN trim(split_first(version, 44))

\* get_tpm_version_from_registry: open SOFTWARE\Microsoft\Tpm
get_tpm_version_open ==
    /\ pc = "version_open"
    /\ calls' = Append(calls, Call("RegOpenKeyExW", KEY_TPM_SOFTWARE))
    /\ IF RegOpenKeyExW(KEY_TPM_SOFTWARE)
       THEN OpenHandle("key") /\ pc' = "version_query"
       ELSE pc' = "version_acpi" /\ UNCHANGED <<handles, hkey>>
    /\ UNCHANGED <<world, fmt, app, hwVars, loc, sysResult>>

\* get_tpm_version_from_registry: query SpecVersion into a 256-byte buffer
get_tpm_version_query ==
    /\ pc = "version_query"
    /\ calls' = Append(calls, Call("RegQueryValueExW", "SpecVersion"))
    /\ loc' = [loc EXCEPT !.q = RegQueryValueExW(KEY_TPM_SOFTWARE, "SpecVersion",
                                                 TPM_BUFFER)]
    /\ pc' = "version_close"
    /\ UNCHANGED <<world, fmt, app, hwVars, handles, hkey, sysResult>>

\* get_tpm_version_from_registry: close the key, then use what was read
get_tpm_version_close ==
    /\ pc = "version_close"
    /\ calls' = Append(calls, Call("RegCloseKey", KEY_TPM_SOFTWARE))
    /\ CloseHandle(hkey)
    /\ IF loc.q.ok /\ loc.q.size > 0
       THEN VersionReturn(SpecVersionText(loc.q))
       ELSE pc' = "version_acpi" /\ UNCHANGED loc
    /\ UNCHANGED <<world, fmt, app, hwVars, sysResult>>

\* get_tpm_version_from_registry: the ACPI device key; "2.0" when it fails
get_tpm_version_acpi ==
    /\ pc = "version_acpi"
    /\ calls' = Append(calls, Call("RegOpenKeyExW", KEY_TPM_ACPI))
    /\ IF RegOpenKeyExW(KEY_TPM_ACPI)
       THEN OpenHandle("key") /\ pc' = "version_acpi_close" /\ UNCHANGED loc
       ELSE VersionReturn(Version20) /\ UNCHANGED <<handles, hkey>>
    /\ UNCHANGED <<world, fmt, app, hwVars, sysResult>>

\* get_tpm_version_from_registry: close the ACPI key, return "2.0"
get_tpm_version_acpi_close ==
    /\ pc = "version_acpi_close"
    /\ calls' = Append(calls, Call("RegCloseKey", KEY_TPM_ACPI))
    /\ CloseHandle(hkey)
    /\ VersionReturn(Version20)
    /\ UNCHANGED <<world, fmt, app, hwVars, sysResult>>

\* Result::unwrap_or
unwrap_or(r, d) == IF r.ok THEN r.val ELSE d

\* get_secure_boot returns r; collect unwraps it and goes on to check_network
SecureBootReturn(r) ==
    /\ loc' = [loc EXCEPT !.secure = r, !.secure_boot = unwrap_or(r, FALSE)]
    /\ pc' = "network"

\* get_secure_boot taking every non-zero value for enabled
SecureBootResultNonZero(q) ==
    IF q.ok THEN [ok |-> TRUE, val |-> (BufDword(q.data) # 0)]
    ELSE [ok |-> TRUE, val |-> FALSE]

\* get_secure_boot once the key is closed: Ok(data[0] == 1), or Ok(false)
SecureBootResult(q) ==
    IF q.ok THEN [ok |-> TRUE, val |-> (BufDword(q.data) = 1)]
    ELSE [ok |-> TRUE, val |-> FALSE]

\* get_secure_boot: open the SecureBoot\State key
get_secure_boot_open ==
    /\ pc = "secure_boot_open"
    /\ calls' = Append(calls, Call("RegOpenKeyExW", KEY_SECURE_BOOT))
    /\ IF RegOpenKeyExW(KEY_SECURE_BOOT)
       THEN OpenHandle("key") /\ pc' = "secure_boot_query" /\ UNCHANGED loc
       ELSE SecureBootReturn([ok |-> TRUE, val |-> FALSE])
                /\ UNCHANGED <<handles, hkey>>
    /\ UNCHANGED <<world, fmt, app, hwVars, sysResult>>

\* get_secure_boot: query UEFISecureBootEnabled into a u32
get_secure_boot_query ==
    /\ pc = "secure_boot_query"
    /\ calls' = Append(calls, Call("RegQueryValueExW", "UEFISecureBootEnabled"))
    /\ loc' = [loc EXCEPT !.q = RegQueryValueExW(KEY_SECURE_BOOT,
                                     "UEFISecureBootEnabled", DWORD_SIZE)]
    /\ pc' = "secure_boot_close"
    /\ UNCHANGED <<world, fmt, app, hwVars, handles, hkey, sysResult>>

\* get_secure_boot: close the key and return
get_secure_boot_close ==
    /\ pc = "secure_boot_close"
    /\ calls' = Append(calls, Call("RegCloseKey", KEY_SECURE_BOOT))
    /\ CloseHandle(hkey)
    /\ SecureBootReturn(SecureBootResult(loc.q))
    /\ UNCHANGED <<world, fmt, app, hwVars, sysResult>>

\* TcpStream::connect_timeout(addr, 2 s) succeeds
connect_timeout(addr) == addr \in world.net

\* seconds of one attempt
CONNECT_TIMEOUT == 2

\* a connect without a timeout: a silent endpoint blocks for the default of
\* the operating system
connect_elapsed_os_default(addr) ==
    IF addr \in world.silent THEN 21 ELSE 0

\* seconds TcpStream::connect_timeout(addr, 2 s) blocks: an endpoint that
\* accepts or refuses answers at once, one that never answers costs the timeout
connect_elapsed(addr) ==
    IF addr \in world.silent THEN CONNECT_TIMEOUT ELSE 0

\* the loop going through every address whatever the outcome
check_network_every_address ==
    /\ pc = "network"
    /\ LET addr == addresses[loc.net_i]
           online == loc.is_online \/ connect_timeout(addr)
       IN /\ calls' = Append(calls, Call("connect_timeout", addr))
          /\ IF loc.net_i < Len(addresses)
             THEN loc' = [loc EXCEPT !.net_i = @ + 1, !.is_online = online,
                                     !.elapsed = @ + connect_elapsed(addr)]
                      /\ pc' = "network"
             ELSE loc' = [loc EXCEPT !.is_online = online,
                                     !.elapsed = @ + connect_elapsed(addr)]
                      /\ pc' = "sys_return"
    /\ UNCHANGED <<world, fmt, app, hwVars, handles, hkey, sysResult>>

\* check_network: one turn of the loop over addresses
check_network ==
    /\ pc = "network"
    /\ LET addr == addresses[loc.net_i] IN
       /\ calls' = Append(calls, Call("connect_timeout", addr))
       /\ IF connect_timeout(addr)
          THEN loc' = [loc EXCEPT !.is_online = TRUE,
                                  !.elapsed = @ + connect_elapsed(addr)]
                   /\ pc' = "sys_return"
          ELSE IF loc.net_i < Len(addresses)
          THEN loc' = [loc EXCEPT !.net_i = @ + 1,
                                  !.elapsed = @ + connect_elapsed(addr)]
                   /\ pc' = "network"
          ELSE loc' = [loc EXCEPT !.is_online = FALSE,
                                  !.elapsed = @ + connect_elapsed(addr)]
                   /\ pc' = "sys_return"
    /\ UNCHANGED <<world, fmt, app, hwVars, handles, hkey, sysResult>>

\* Ok(Self { .. }): collect returns the snapshot
SystemInfo_collect_return ==
    /\ pc = "sys_return"
    /\ sysResult' =
          [ok |-> TRUE,
           val |-> [boot_mode |-> loc.boot_mode,
                    tpm_enabled |-> loc.tpm_enabled,
                    tpm_version |-> loc.tpm_version,
                    secure_boot |-> loc.secure_boot,
                    is_pe_environment |-> loc.is_pe,
                    is_online |-> loc.is_online]]
    /\ pc' = "idle"
    /\ UNCHANGED <<world, fmt, app, hwVars, handles, hkey, calls, loc>>

(***************************************************************************)
(* The Registry Accessor (hardware_info.rs)                                *)
(***************************************************************************)

STRING_BUFFER == 1024         \* vec![0u8; 1024]

None == [some |-> FALSE, val |-> <<>>, panic |-> FALSE]
NoneDword == [some |-> FALSE, val |-> 0, panic |-> FALSE]
Some(v) == [some |-> TRUE, val |-> v, panic |-> FALSE]
Panic == [some |-> FALSE, val |-> <<>>, panic |-> TRUE]

NoFrame ==
    [fn |-> "", key |-> "", name |-> "", q |-> NoQuery, result |-> None, ret |-> "idle"]

\* the caller's side of read_registry_string(HKEY_LOCAL_MACHINE, key, name):
\* the call is entered, and returns to the caller's location ret
CallReadString(key, name, ret) ==
    /\ rr' = [fn |-> "read_registry_string", key |-> key, name |-> name,
              q |-> NoQuery, result |-> None, ret |-> ret]
    /\ pc' = "string_open"

\* the caller's side of read_registry_dword(HKEY_LOCAL_MACHINE, key, name)
CallReadDword(key, name, ret) ==
    /\ rr' = [fn |-> "read_registry_dword", key |-> key, name |-> name,
              q |-> NoQuery, result |-> NoneDword, ret |-> ret]
    /\ pc' = "dword_open"

\* OsString::from_wide(..).to_string_lossy(): as from_utf16_lossy
to_string_lossy(wide) == from_utf16_lossy(wide)

\* read_registry_string without the check of the value's type
ReadStringResultUntyped(q) ==
    IF ~q.ok THEN None
    ELSE LET len == q.size \div 2 IN
         IF len > 0
         THEN IF len * 2 > STRING_BUFFER THEN Panic
              ELSE LET wide == [i \in 1..len |-> BufWide(q.data, i)] IN
                   Some(to_string_lossy(SubSeq(wide, 1, saturating_sub(Len(wide), 1))))
         ELSE None

\* read_registry_string after the key is closed: what it returns for the
\* query result q (a slice beyond the buffer's end would panic)
ReadStringResult(q) ==
    IF ~q.ok THEN None
    ELSE IF q.type # REG_SZ THEN None
    ELSE LET len == q.size \div 2 IN
         IF len > 0
         THEN IF len * 2 > STRING_BUFFER THEN Panic
              ELSE LET wide == [i \in 1..len |-> BufWide(q.data, i)] IN
                   Some(to_string_lossy(SubSeq(wide, 1, saturating_sub(Len(wide), 1))))
         ELSE None

\* read_registry_dword after the key is closed
ReadDwordResult(q) ==
    IF ~q.ok THEN NoneDword
    ELSE IF q.type # REG_DWORD THEN NoneDword
    ELSE Some(BufDword(q.data))

\* read_registry_string: RegOpenKeyExW; None when it fails
read_registry_string_open ==
    /\ pc = "string_open"
    /\ calls' = Append(calls, Call("RegOpenKeyExW", rr.key))
    /\ IF RegOpenKeyExW(rr.key)
       THEN OpenHandle("key") /\ pc' = "string_query" /\ UNCHANGED rr
       ELSE /\ rr' = [rr EXCEPT !.result = None]
            /\ pc' = rr.ret
            /\ UNCHANGED <<handles, hkey>>
    /\ UNCHANGED <<world, fmt, app, sysVars, hw, info, hwResult>>

\* read_registry_string: one RegQueryValueExW into the 1024-byte buffer
read_registry_string_query ==
    /\ pc = "string_query"
    /\ calls' = Append(calls, Call("RegQueryValueExW", rr.name))
    /\ rr' = [rr EXCEPT !.q = RegQueryValueExW(rr.key, rr.name, STRING_BUFFER)]
    /\ pc' = "string_close"
    /\ UNCHANGED <<world, fmt, app, sysVars, handles, hkey, hw, info, hwResult>>

\* read_registry_string: RegCloseKey, then the checks and the decoding
read_registry_string_close ==
    /\ pc = "string_close"
    /\ calls' = Append(calls, Call("RegCloseKey", rr.key))
    /\ CloseHandle(hkey)
    /\ LET r == ReadStringResult(rr.q) IN
       /\ rr' = [rr EXCEPT !.result = r]
       /\ pc' = IF r.panic THEN "panic" ELSE rr.ret
    /\ UNCHANGED <<world, fmt, app, sysVars, hw, info, hwResult>>

\* read_registry_dword: RegOpenKeyExW; None when it fails
read_registry_dword_open ==
    /\ pc = "dword_open"
    /\ calls' = Append(calls, Call("RegOpenKeyExW", rr.key))
    /\ IF RegOpenKeyExW(rr.key)
       THEN OpenHandle("key") /\ pc' = "dword_query" /\ UNCHANGED rr
       ELSE /\ rr' = [rr EXCEPT !.result = NoneDword]
            /\ pc' = rr.ret
            /\ UNCHANGED <<handles, hkey>>
    /\ UNCHANGED <<world, fmt, app, sysVars, hw, info, hwResult>>

\* read_registry_dword: RegQueryValueExW into a u32
read_registry_dword_query ==
    /\ pc = "dword_query"
    /\ calls' = Append(calls, Call("RegQueryValueExW", rr.name))
    /\ rr' = [rr EXCEPT !.q = RegQueryValueExW(rr.key, rr.name, DWORD_SIZE)]
    /\ pc' = "dword_close"
    /\ UNCHANGED <<world, fmt, app, sysVars, handles, hkey, hw, info, hwResult>>

\* read_registry_dword returning from a failed query with the key still open
read_registry_dword_close_on_success ==
    /\ pc = "dword_close"
    /\ IF rr.q.ok
       THEN /\ calls' = Append(calls, Call("RegCloseKey", rr.key))
            /\ CloseHandle(hkey)
       ELSE UNCHANGED <<calls, handles, hkey>>
    /\ rr' = [rr EXCEPT !.result = ReadDwordResult(rr.q)]
    /\ pc' = rr.ret
    /\ UNCHANGED <<world, fmt, app, sysVars, hw, info, hwResult>>

\* read_registry_dword: RegCloseKey, then the checks
read_registry_dword_close ==
    /\ pc = "dword_close"
    /\ calls' = Append(calls, Call("RegCloseKey", rr.key))
    /\ CloseHandle(hkey)
    /\ rr' = [rr EXCEPT !.result = ReadDwordResult(rr.q)]
    /\ pc' = rr.ret
    /\ UNCHANGED <<world, fmt, app, sysVars, hw, info, hwResult>>

(***************************************************************************)
(* HardwareInfo::collect (hardware_info.rs)                                *)
(***************************************************************************)

DefaultOsInfo ==
    [name |-> <<>>, version |-> <<>>, build_number |-> <<>>, architecture |-> "",
     product_id |-> <<>>, registered_owner |-> <<>>, install_date |-> <<>>]

DefaultCpuInfo ==
    [name |-> <<>>, manufacturer |-> <<>>, cores |-> 0, logical_processors |-> 0,
     max_clock_speed |-> 0, current_clock_speed |-> 0, l2_cache_size |-> 0,
     l3_cache_size |-> 0, architecture |-> ""]

DefaultMemoryInfo ==
    [total_physical |-> 0, available_physical |-> 0, total_virtual |-> 0,
     available_virtual |-> 0, memory_load |-> 0, sticks |-> <<>>]

DefaultMotherboardInfo ==
    [manufacturer |-> <<>>, product |-> <<>>, version |-> <<>>, serial_number |-> <<>>]

DefaultBiosInfo ==
    [manufacturer |-> <<>>, version |-> <<>>, release_date |-> <<>>,
     smbios_version |-> <<>>]

\* no DeviceIoControl result yet
NoIoctl == [ok |-> FALSE, data |-> <<>>]

\* DiskInfo::default(); size is the u64 as its eight bytes, low byte first
DefaultDiskInfo ==
    [model |-> <<>>, interface_type |-> "", media_type |-> "",
     size |-> <<0, 0, 0, 0, 0, 0, 0, 0>>, serial_number |-> <<>>,
     firmware_revision |-> <<>>, partitions |-> 0]

DefaultHardwareInfo ==
    [cpu |-> DefaultCpuInfo, memory |-> DefaultMemoryInfo,
     motherboard |-> DefaultMotherboardInfo, bios |-> DefaultBiosInfo,
     disks |-> <<>>, gpus |-> <<>>, os |-> DefaultOsInfo,
     computer_name |-> <<>>, computer_model |-> <<>>,
     computer_manufacturer |-> <<>>]

\* the locals of HardwareInfo::collect and of the detector in progress
InitHw ==
    [build_number |-> 0,             \* get_os_info's build_number
     os_info |-> DefaultOsInfo,
     cpu_info |-> DefaultCpuInfo,
     i |-> 0,                        \* the loop index of the detector in progress
     core_count |-> 0,
     disks |-> <<>>,                 \* get_disk_info's disks
     disk |-> DefaultDiskInfo,       \* query_disk_info's disk
     ioctl |-> NoIoctl,              \* result, bytes_returned and buffer
     gpus |-> <<>>]                  \* get_gpu_info's gpus

\* pub fn collect(): entered; get_computer_info reads the computer name
HardwareInfo_enter ==
    /\ pc = "idle"
    /\ info' = DefaultHardwareInfo
    /\ hw' = InitHw
    /\ calls' = <<>>
    /\ handles' = SelectSeq(handles, LAMBDA h : h.state # "closed")
    /\ CallReadString(KEY_COMPUTER_NAME, "ComputerName", "computer_name")
    /\ UNCHANGED <<world, fmt, sysVars, hkey, hwResult>>

\* HardwareInfo::collect() called on its own
HardwareInfo_collect == HardwareInfo_enter /\ UNCHANGED app

\* get_computer_info: the computer name, then the system manufacturer
get_computer_info_name ==
    /\ pc = "computer_name"
    /\ info' = IF rr.result.some
               THEN [info EXCEPT !.computer_name = rr.result.val] ELSE info
    /\ CallReadString(KEY_BIOS, "SystemManufacturer", "computer_manufacturer")
    /\ UNCHANGED <<world, fmt, app, sysVars, osVars, hw, hwResult>>

\* get_computer_info: the manufacturer, then the product name
get_computer_info_manufacturer ==
    /\ pc = "computer_manufacturer"
    /\ info' = IF rr.result.some
               THEN [info EXCEPT !.computer_manufacturer = rr.result.val] ELSE info
    /\ CallReadString(KEY_BIOS, "SystemProductName", "computer_model")
    /\ UNCHANGED <<world, fmt, app, sysVars, osVars, hw, hwResult>>

\* get_computer_info: the model; get_os_info starts with CurrentBuild
get_computer_info_model ==
    /\ pc = "computer_model"
    /\ info' = IF rr.result.some
               THEN [info EXCEPT !.computer_model = rr.result.val] ELSE info
    /\ CallReadString(nt_path, "CurrentBuild", "os_build")
    /\ UNCHANGED <<world, fmt, app, sysVars, osVars, hw, hwResult>>

\* read_registry_string(.., "CurrentBuild").and_then(|s| s.parse().ok()).unwrap_or(0)
BuildNumber(r) ==
    IF r.some /\ parse_u32(r.val).ok THEN parse_u32(r.val).val ELSE 0

\* get_os_info with strict thresholds
OsNameStrict(build_number, r) ==
    IF r.some
    THEN IF build_number > 22000 /\ contains(r.val, Windows10)
         THEN replace(r.val, Windows10, Windows11)
         ELSE r.val
    ELSE IF build_number > 22000 THEN Windows11
    ELSE IF build_number > 10240 THEN Windows10
    ELSE IF build_number > 9600 THEN <<87, 105, 110, 100, 111, 119, 115, 32, 56, 46, 49>>
    ELSE IF build_number > 9200 THEN <<87, 105, 110, 100, 111, 119, 115, 32, 56>>
    ELSE IF build_number > 7600 THEN <<87, 105, 110, 100, 111, 119, 115, 32, 55>>
    ELSE <<87, 105, 110, 100, 111, 119, 115>>

\* get_os_info: os_info.name from the build number and the ProductName read
OsName(build_number, r) ==
    IF r.some
    THEN IF build_number >= 22000 /\ contains(r.val, Windows10)
         THEN replace(r.val, Windows10, Windows11)
         ELSE r.val
    ELSE IF build_number >= 22000 THEN Windows11
    ELSE IF build_number >= 10240 THEN Windows10
    ELSE IF build_number >= 9600 THEN <<87, 105, 110, 100, 111, 119, 115, 32, 56, 46, 49>>       \* "Windows 8.1"
    ELSE IF build_number >= 9200 THEN <<87, 105, 110, 100, 111, 119, 115, 32, 56>>         \* "Windows 8"
    ELSE IF build_number >= 7600 THEN <<87, 105, 110, 100, 111, 119, 115, 32, 55>>         \* "Windows 7"
    ELSE <<87, 105, 110, 100, 111, 119, 115>>                                        \* "Windows"

\* get_os_info: os_info.build_number from the build number and the UBR read
\* ('.' is 46)
BuildString(build_number, ubr) ==
    IntToStr(build_number) \o (IF ubr.some THEN <<46>> \o IntToStr(ubr.val) ELSE <<>>)

\* get_os_info and get_cpu_info: the label of wProcessorArchitecture (the
\* source's Chinese labels for "32-bit", "64-bit" and "unknown" are rendered
\* in English)
OsArchitecture(a) ==
    CASE a = 0 -> "32 bit" [] a = 9 -> "64 bit" [] a = 12 -> "ARM64"
      [] OTHER -> "unknown"

CpuArchitecture(a) ==
    CASE a = 0 -> "x86" [] a = 5 -> "ARM" [] a = 6 -> "IA-64" [] a = 9 -> "x64"
      [] a = 12 -> "ARM64" [] OTHER -> "unknown"

\* two decimal digits, zero-padded
Pad2(n) == <<48 + (n \div 10), 48 + (n % 10)>>

\* chrono::DateTime::from_timestamp(t, 0) formatted "%Y-%m-%d" ('-' is 45):
\* the civil date of day t / 86400 of the Unix era
FormatDate(t) ==
    LET z == (t \div 86400) + 719468
        era == z \div 146097
        doe == z - era * 146097
        yoe == (doe - doe \div 1460 + doe \div 36524 - doe \div 146096) \div 365
        doy == doe - (365 * yoe + yoe \div 4 - yoe \div 100)
        mp == (5 * doy + 2) \div 153
        d == doy - (153 * mp + 2) \div 5 + 1
        m == IF mp < 10 THEN mp + 3 ELSE mp - 9
        y == yoe + era * 400 + (IF m <= 2 THEN 1 ELSE 0)
    IN IntToStr(y) \o <<45>> \o Pad2(m) \o <<45>> \o Pad2(d)

\* get_os_info: the build number is kept, ProductName is read
get_os_info_build ==
    /\ pc = "os_build"
    /\ hw' = [hw EXCEPT !.build_number = BuildNumber(rr.result),
                        !.os_info = DefaultOsInfo]
    /\ CallReadString(nt_path, "ProductName", "os_name")
    /\ UNCHANGED <<world, fmt, app, sysVars, osVars, info, hwResult>>

\* get_os_info: the name, corrected or inferred; DisplayVersion is read
get_os_info_name ==
    /\ pc = "os_name"
    /\ hw' = [hw EXCEPT !.os_info.name = OsName(hw.build_number, rr.result)]
    /\ CallReadString(nt_path, "DisplayVersion", "os_display_version")
    /\ UNCHANGED <<world, fmt, app, sysVars, osVars, info, hwResult>>

\* get_os_info reading UBR whatever the build number
OsAfterVersionUnguarded ==
    CallReadDword(nt_path, "UBR", "os_ubr")

\* get_os_info: after the version, UBR is read when build_number > 0
OsAfterVersion ==
    IF hw.build_number > 0
    THEN CallReadDword(nt_path, "UBR", "os_ubr")
    ELSE pc' = "os_architecture" /\ UNCHANGED rr

\* get_os_info: DisplayVersion, else ReleaseId is read
get_os_info_display_version ==
    /\ pc = "os_display_version"
    /\ IF rr.result.some
       THEN /\ hw' = [hw EXCEPT !.os_info.version = rr.result.val]
            /\ OsAfterVersion
       ELSE /\ CallReadString(nt_path, "ReleaseId", "os_release_id")
            /\ UNCHANGED hw
    /\ UNCHANGED <<world, fmt, app, sysVars, osVars, info, hwResult>>

\* get_os_info: ReleaseId
get_os_info_release_id ==
    /\ pc = "os_release_id"
    /\ hw' = IF rr.result.some
             THEN [hw EXCEPT !.os_info.version = rr.result.val] ELSE hw
    /\ OsAfterVersion
    /\ UNCHANGED <<world, fmt, app, sysVars, osVars, info, hwResult>>

\* get_os_info: the full build number, with the UBR when it could be read
get_os_info_ubr ==
    /\ pc = "os_ubr"
    /\ hw' = [hw EXCEPT !.os_info.build_number =
                           BuildString(hw.build_number, rr.result)]
    /\ pc' = "os_architecture"
    /\ UNCHANGED <<world, fmt, app, sysVars, osVars, rr, info, hwResult>>

\* get_os_info: GetNativeSystemInfo gives the architecture; ProductId is read
get_os_info_architecture ==
    /\ pc = "os_architecture"
    /\ calls' = Append(calls, Call("GetNativeSystemInfo", ""))
    /\ hw' = [hw EXCEPT !.os_info.architecture =
                           OsArchitecture(world.sys.wProcessorArchitecture)]
    /\ CallReadString(nt_path, "ProductId", "os_product_id")
    /\ UNCHANGED <<world, fmt, app, sysVars, handles, hkey, info, hwResult>>

\* get_os_info: the product id, then the registered owner
get_os_info_product_id ==
    /\ pc = "os_product_id"
    /\ hw' = IF rr.result.some
             THEN [hw EXCEPT !.os_info.product_id = rr.result.val] ELSE hw
    /\ CallReadString(nt_path, "RegisteredOwner", "os_owner")
    /\ UNCHANGED <<world, fmt, app, sysVars, osVars, info, hwResult>>

\* get_os_info: the owner, then the install date
get_os_info_owner ==
    /\ pc = "os_owner"
    /\ hw' = IF rr.result.some
             THEN [hw EXCEPT !.os_info.registered_owner = rr.result.val] ELSE hw
    /\ CallReadDword(nt_path, "InstallDate", "os_install_date")
    /\ UNCHANGED <<world, fmt, app, sysVars, osVars, info, hwResult>>

\* get_os_info: the install date; info.os = os_info and get_cpu_info starts
get_os_info_install_date ==
    /\ pc = "os_install_date"
    /\ LET os_info == IF rr.result.some
                      THEN [hw.os_info EXCEPT !.install_date = FormatDate(rr.result.val)]
                      ELSE hw.os_info
       IN /\ hw' = [hw EXCEPT !.os_info = os_info]
          /\ info' = [info EXCEPT !.os = os_info]
    /\ pc' = "cpu_system_info"
    /\ UNCHANGED <<world, fmt, app, sysVars, osVars, rr, hwResult>>

PROCESSOR_LIMIT == 256        \* for i in 0..256

\* get_cpu_info: GetNativeSystemInfo; the name of processor 0 is read
get_cpu_info_system_info ==
    /\ pc = "cpu_system_info"
    /\ calls' = Append(calls, Call("GetNativeSystemInfo", ""))
    /\ hw' = [hw EXCEPT !.cpu_info =
                 [DefaultCpuInfo EXCEPT
                     !.logical_processors = world.sys.dwNumberOfProcessors,
                     !.architecture = CpuArchitecture(world.sys.wProcessorArchitecture)]]
    /\ CallReadString(cpu_path(0), "ProcessorNameString", "cpu_name")
    /\ UNCHANGED <<world, fmt, app, sysVars, handles, hkey, info, hwResult>>

\* get_cpu_info: the trimmed name, then the vendor
get_cpu_info_name ==
    /\ pc = "cpu_name"
    /\ hw' = IF rr.result.some
             THEN [hw EXCEPT !.cpu_info.name = trim(rr.result.val)] ELSE hw
    /\ CallReadString(cpu_path(0), "VendorIdentifier", "cpu_vendor")
    /\ UNCHANGED <<world, fmt, app, sysVars, osVars, info, hwResult>>

\* get_cpu_info: the vendor, then the clock speed
get_cpu_info_vendor ==
    /\ pc = "cpu_vendor"
    /\ hw' = IF rr.result.some
             THEN [hw EXCEPT !.cpu_info.manufacturer = rr.result.val] ELSE hw
    /\ CallReadDword(cpu_path(0), "~MHz", "cpu_mhz")
    /\ UNCHANGED <<world, fmt, app, sysVars, osVars, info, hwResult>>

\* get_cpu_info: the clock speed; the core-count loop starts at index 0
get_cpu_info_mhz ==
    /\ pc = "cpu_mhz"
    /\ hw' = [(IF rr.result.some
               THEN [hw EXCEPT !.cpu_info.max_clock_speed = rr.result.val,
                               !.cpu_info.current_clock_speed = rr.result.val]
               ELSE hw) EXCEPT !.core_count = 0, !.i = 0]
    /\ CallReadString(cpu_path(0), "ProcessorNameString", "cpu_core")
    /\ UNCHANGED <<world, fmt, app, sysVars, osVars, info, hwResult>>

\* get_cpu_info once the loop is left with core_count: cores is set when
\* it is positive, info.cpu = cpu_info, and get_memory_info is next
CpuReturn(core_count) ==
    LET cpu_info == IF core_count > 0
                    THEN [hw.cpu_info EXCEPT !.cores = core_count]
                    ELSE hw.cpu_info
    IN /\ hw' = [hw EXCEPT !.cpu_info = cpu_info, !.core_count = core_count]
       /\ info' = [info EXCEPT !.cpu = cpu_info]
       /\ pc' = "memory"
       /\ UNCHANGED rr

\* the loop going on after an index that cannot be read
get_cpu_info_core_skipping ==
    /\ pc = "cpu_core"
    /\ LET core_count == hw.core_count + (IF rr.result.some THEN 1 ELSE 0) IN
       IF hw.i + 1 < PROCESSOR_LIMIT
       THEN /\ hw' = [hw EXCEPT !.core_count = core_count, !.i = @ + 1]
            /\ CallReadString(cpu_path(hw.i + 1), "ProcessorNameString", "cpu_core")
            /\ UNCHANGED info
       ELSE CpuReturn(core_count)
    /\ UNCHANGED <<world, fmt, app, sysVars, osVars, hwResult>>

\* get_cpu_info: one turn of the core-count loop, for index hw.i
get_cpu_info_core ==
    /\ pc = "cpu_core"
    /\ IF rr.result.some
       THEN IF hw.i + 1 < PROCESSOR_LIMIT
            THEN /\ hw' = [hw EXCEPT !.core_count = @ + 1, !.i = @ + 1]
                 /\ CallReadString(cpu_path(hw.i + 1), "ProcessorNameString", "cpu_core")
                 /\ UNCHANGED info
            ELSE CpuReturn(hw.core_count + 1)
       ELSE CpuReturn(hw.core_count)
    /\ UNCHANGED <<world, fmt, app, sysVars, osVars, hwResult>>

\* get_memory_info: GlobalMemoryStatusEx, zeroes when it fails; then
\* get_motherboard_info reads the board manufacturer
get_memory_info ==
    /\ pc = "memory"
    /\ calls' = Append(calls, Call("GlobalMemoryStatusEx", ""))
    /\ info' = [info EXCEPT !.memory =
                   IF world.mem.ok
                   THEN [DefaultMemoryInfo EXCEPT
                            !.total_physical = world.mem.ullTotalPhys,
                            !.available_physical = world.mem.ullAvailPhys,
                            !.total_virtual = world.mem.ullTotalVirtual,
                            !.available_virtual = world.mem.ullAvailVirtual,
                            !.memory_load = world.mem.dwMemoryLoad]
                   ELSE DefaultMemoryInfo]
    /\ CallReadString(KEY_BIOS, "BaseBoardManufacturer", "board_manufacturer")
    /\ UNCHANGED <<world, fmt, app, sysVars, handles, hkey, hw, hwResult>>

\* get_motherboard_info: manufacturer, then product (mb_info is written
\* straight into info.motherboard: nothing reads it before it is assigned)
get_motherboard_info_manufacturer ==
    /\ pc = "board_manufacturer"
    /\ info' = IF rr.result.some
               THEN [info EXCEPT !.motherboard.manufacturer = rr.result.val]
               ELSE info
    /\ CallReadString(KEY_BIOS, "BaseBoardProduct", "board_product")
    /\ UNCHANGED <<world, fmt, app, sysVars, osVars, hw, hwResult>>

\* get_motherboard_info: product, then version
get_motherboard_info_product ==
    /\ pc = "board_product"
    /\ info' = IF rr.result.some
               THEN [info EXCEPT !.motherboard.product = rr.result.val] ELSE info
    /\ CallReadString(KEY_BIOS, "BaseBoardVersion", "board_version")
    /\ UNCHANGED <<world, fmt, app, sysVars, osVars, hw, hwResult>>

\* get_motherboard_info: version; get_bios_info reads the vendor
get_motherboard_info_version ==
    /\ pc = "board_version"
    /\ info' = IF rr.result.some
               THEN [info EXCEPT !.motherboard.version = rr.result.val] ELSE info
    /\ CallReadString(KEY_BIOS, "BIOSVendor", "bios_vendor")
    /\ UNCHANGED <<world, fmt, app, sysVars, osVars, hw, hwResult>>

\* get_bios_info: vendor, then version
get_bios_info_vendor ==
    /\ pc = "bios_vendor"
    /\ info' = IF rr.result.some
               THEN [info EXCEPT !.bios.manufacturer = rr.result.val] ELSE info
    /\ CallReadString(KEY_BIOS, "BIOSVersion", "bios_version")
    /\ UNCHANGED <<world, fmt, app, sysVars, osVars, hw, hwResult>>

\* get_bios_info: version, then release date
get_bios_info_version ==
    /\ pc = "bios_version"
    /\ info' = IF rr.result.some
               THEN [info EXCEPT !.bios.version = rr.result.val] ELSE info
    /\ CallReadString(KEY_BIOS, "BIOSReleaseDate", "bios_release_date")
    /\ UNCHANGED <<world, fmt, app, sysVars, osVars, hw, hwResult>>

\* get_bios_info: release date, then the SMBIOS version
get_bios_info_release_date ==
    /\ pc = "bios_release_date"
    /\ info' = IF rr.result.some
               THEN [info EXCEPT !.bios.release_date = rr.result.val] ELSE info
    /\ CallReadString(KEY_BIOS, "SystemBiosVersion", "bios_smbios")
    /\ UNCHANGED <<world, fmt, app, sysVars, osVars, hw, hwResult>>

\* get_bios_info: the SMBIOS version; get_disk_info starts at drive 0
get_bios_info_smbios ==
    /\ pc = "bios_smbios"
    /\ info' = IF rr.result.some
               THEN [info EXCEPT !.bios.smbios_version = rr.result.val] ELSE info
    /\ hw' = [hw EXCEPT !.i = 0, !.disks = <<>>]
    /\ pc' = "disk_open"
    /\ UNCHANGED <<world, fmt, app, sysVars, osVars, rr, hwResult>>

DRIVE_LIMIT == 16             \* for i in 0..16
DESCRIPTOR_BUFFER == 4096     \* vec![0u8; 4096]

\* the little-endian u32 at byte offset o (from 0) of the buffer
BufU32(data, o) ==
    BufByte(data, o + 1) + 256 * BufByte(data, o + 2) + 65536 * BufByte(data, o + 3)
        + 16777216 * BufByte(data, o + 4)

\* the STORAGE_DEVICE_DESCRIPTOR at the start of the buffer (#[repr(C)])
Descriptor(data) ==
    [RemovableMedia |-> BufByte(data, 11),
     ProductIdOffset |-> BufU32(data, 16),
     ProductRevisionOffset |-> BufU32(data, 20),
     SerialNumberOffset |-> BufU32(data, 24),
     BusType |-> BufU32(data, 28)]

\* buffer[offset..].iter().position(|&b| b == 0), as an offset into the
\* buffer; -1 for None.  Past the data the buffer is still zero.
FirstNul(data, offset) ==
    LET within == {j \in offset..(Len(data) - 1) : data[j + 1] = 0} IN
    IF within # {} THEN Least(within)
    ELSE IF Len(data) < DESCRIPTOR_BUFFER
    THEN (IF offset > Len(data) THEN offset ELSE Len(data))
    ELSE -1

\* the field read without the upper bound on its offset
DescriptorFieldUnbounded(data, offset) ==
    IF offset > 0
    THEN IF offset > DESCRIPTOR_BUFFER THEN Panic
         ELSE IF offset = DESCRIPTOR_BUFFER THEN Some(<<>>)
         ELSE LET end == FirstNul(data, offset) IN
              IF end # -1
              THEN Some(trim(from_utf8_lossy(
                       [k \in 1..(end - offset) |-> BufByte(data, offset + k)])))
              ELSE Some(<<>>)
    ELSE Some(<<>>)

\* one string field of the descriptor: the field as it is left (empty unless
\* the offset is valid and a NUL follows); slicing past the buffer panics
DescriptorField(data, offset) ==
    IF offset > 0 /\ offset < DESCRIPTOR_BUFFER
    THEN IF offset > DESCRIPTOR_BUFFER THEN Panic
         ELSE LET end == FirstNul(data, offset) IN
              IF end # -1
              THEN Some(trim(from_utf8_lossy(
                       [k \in 1..(end - offset) |-> BufByte(data, offset + k)])))
              ELSE Some(<<>>)
    ELSE Some(<<>>)

\* the table with NVMe at code 16
BusTypeLabelShifted(n) ==
    CASE n = 1 -> "SCSI" [] n = 2 -> "ATAPI" [] n = 3 -> "ATA" [] n = 4 -> "1394"
      [] n = 5 -> "SSA" [] n = 6 -> "Fibre" [] n = 7 -> "USB" [] n = 8 -> "RAID"
      [] n = 9 -> "iSCSI" [] n = 10 -> "SAS" [] n = 11 -> "SATA" [] n = 12 -> "SD"
      [] n = 13 -> "MMC" [] n = 14 -> "Virtual" [] n = 15 -> "FileBackedVirtual"
      [] n = 16 -> "NVMe"
      [] OTHER -> "Unknown(" \o ToString(n) \o ")"

\* disk.interface_type for a bus-type code
BusTypeLabel(n) ==
    CASE n = 1 -> "SCSI" [] n = 2 -> "ATAPI" [] n = 3 -> "ATA" [] n = 4 -> "1394"
      [] n = 5 -> "SSA" [] n = 6 -> "Fibre" [] n = 7 -> "USB" [] n = 8 -> "RAID"
      [] n = 9 -> "iSCSI" [] n = 10 -> "SAS" [] n = 11 -> "SATA" [] n = 12 -> "SD"
      [] n = 13 -> "MMC" [] n = 14 -> "Virtual" [] n = 15 -> "FileBackedVirtual"
      [] n = 17 -> "NVMe"
      [] OTHER -> "Unknown(" \o ToString(n) \o ")"

\* query_disk_info from the descriptor to the media type (the source's
\* Chinese labels for "removable" and "fixed" are rendered in English)
ParseDescriptor(data) ==
    LET descriptor == Descriptor(data)
        model == DescriptorField(data, descriptor.ProductIdOffset)
        serial == DescriptorField(data, descriptor.SerialNumberOffset)
        revision == DescriptorField(data, descriptor.ProductRevisionOffset)
    IN IF model.panic \/ serial.panic \/ revision.panic THEN Panic
       ELSE Some([DefaultDiskInfo EXCEPT
                     !.model = model.val,
                     !.serial_number = serial.val,
                     !.firmware_revision = revision.val,
                     !.interface_type = BusTypeLabel(descriptor.BusType),
                     !.media_type = IF descriptor.RemovableMedia # 0
                                    THEN "removable" ELSE "fixed"])

\* disk.size > 0, for a u64 held as its eight bytes
NonZero(size) == \E k \in 1..Len(size) : size[k] # 0

\* a filter that wants both a model and a size
DiskFilterBoth(disk) == IF disk.model # <<>> /\ NonZero(disk.size) THEN Some(disk) ELSE None

\* query_disk_info's last statement: only a disk with a model or a size
DiskFilter(disk) == IF disk.model # <<>> \/ NonZero(disk.size) THEN Some(disk) ELSE None

\* get_disk_info leaving the loop at the first drive that gives no disk
DiskReturnStopping(r) ==
    LET disks == IF r.some THEN Append(hw.disks, r.val) ELSE hw.disks IN
    IF r.some /\ hw.i + 1 < DRIVE_LIMIT
    THEN /\ hw' = [hw EXCEPT !.disks = disks, !.i = @ + 1, !.ioctl = NoIoctl]
         /\ pc' = "disk_open"
         /\ UNCHANGED info
    ELSE /\ hw' = [hw EXCEPT !.disks = disks, !.i = 0, !.ioctl = NoIoctl, !.gpus = <<>>]
         /\ info' = [info EXCEPT !.disks = disks]
         /\ pc' = "gpu_enum"

\* get_disk_info once query_disk_info returned r for drive hw.i: the disk is
\* pushed, and the loop goes to the next drive or get_gpu_info starts
DiskReturn(r) ==
    LET disks == IF r.some THEN Append(hw.disks, r.val) ELSE hw.disks IN
    IF hw.i + 1 < DRIVE_LIMIT
    THEN /\ hw' = [hw EXCEPT !.disks = disks, !.i = @ + 1, !.ioctl = NoIoctl]
         /\ pc' = "disk_open"
         /\ UNCHANGED info
    ELSE /\ hw' = [hw EXCEPT !.disks = disks, !.i = 0, !.ioctl = NoIoctl, !.gpus = <<>>]
         /\ info' = [info EXCEPT !.disks = disks]
         /\ pc' = "gpu_enum"

\* format!(r"\\.\PhysicalDrive{}", i)
drive_path(i) == "\\\\.\\PhysicalDrive" \o ToString(i)

\* query_disk_info: CreateFileW on the drive; None unless a valid handle
query_disk_info_open ==
    /\ pc = "disk_open"
    /\ calls' = Append(calls, Call("CreateFileW", drive_path(hw.i)))
    /\ IF world.drives[hw.i + 1].open = "ok"
       THEN OpenHandle("device") /\ pc' = "disk_query" /\ UNCHANGED <<hw, info>>
       ELSE DiskReturn(None) /\ UNCHANGED <<handles, hkey>>
    /\ UNCHANGED <<world, fmt, app, sysVars, rr, hwResult>>

\* query_disk_info: DeviceIoControl(IOCTL_STORAGE_QUERY_PROPERTY)
query_disk_info_query ==
    /\ pc = "disk_query"
    /\ calls' = Append(calls, Call("IOCTL_STORAGE_QUERY_PROPERTY", drive_path(hw.i)))
    /\ hw' = [hw EXCEPT !.ioctl = world.drives[hw.i + 1].property]
    /\ pc' = "disk_property"
    /\ UNCHANGED <<world, fmt, app, sysVars, handles, hkey, rr, info, hwResult>>

\* query_disk_info returning from a failed query with the handle still open
query_disk_info_property_early_return ==
    /\ pc = "disk_property"
    /\ IF ~hw.ioctl.ok \/ Len(hw.ioctl.data) = 0
       THEN /\ DiskReturn(None)
            /\ UNCHANGED <<calls, handles, hkey>>
       ELSE LET parsed == ParseDescriptor(hw.ioctl.data)
                length == world.drives[hw.i + 1].length
            IN /\ calls' = Append(calls, Call("IOCTL_DISK_GET_LENGTH_INFO",
                                              drive_path(hw.i)))
               /\ IF parsed.panic
                  THEN pc' = "panic" /\ UNCHANGED hw
                  ELSE /\ hw' = [hw EXCEPT !.disk =
                                    IF length.ok
                                    THEN [parsed.val EXCEPT !.size = length.bytes]
                                    ELSE parsed.val]
                       /\ pc' = "disk_close"
               /\ UNCHANGED <<handles, hkey, info>>
    /\ UNCHANGED <<world, fmt, app, sysVars, rr, hwResult>>

\* query_disk_info: a failed or empty query closes the handle and returns
\* None; otherwise the descriptor is parsed and the length is asked for
query_disk_info_property ==
    /\ pc = "disk_property"
    /\ IF ~hw.ioctl.ok \/ Len(hw.ioctl.data) = 0
       THEN /\ calls' = Append(calls, Call("CloseHandle", drive_path(hw.i)))
            /\ CloseHandle(hkey)
            /\ DiskReturn(None)
       ELSE LET parsed == ParseDescriptor(hw.ioctl.data)
                length == world.drives[hw.i + 1].length
            IN /\ calls' = Append(calls, Call("IOCTL_DISK_GET_LENGTH_INFO",
                                              drive_path(hw.i)))
               /\ IF parsed.panic
                  THEN pc' = "panic" /\ UNCHANGED hw
                  ELSE /\ hw' = [hw EXCEPT !.disk =
                                    IF length.ok
                                    THEN [parsed.val EXCEPT !.size = length.bytes]
                                    ELSE parsed.val]
                       /\ pc' = "disk_close"
               /\ UNCHANGED <<handles, hkey, info>>
    /\ UNCHANGED <<world, fmt, app, sysVars, rr, hwResult>>

\* query_disk_info: CloseHandle, then the filter
query_disk_info_close ==
    /\ pc = "disk_close"
    /\ calls' = Append(calls, Call("CloseHandle", drive_path(hw.i)))
    /\ CloseHandle(hkey)
    /\ DiskReturn(DiskFilter(hw.disk))
    /\ UNCHANGED <<world, fmt, app, sysVars, rr, hwResult>>

DISPLAY_DEVICE_ACTIVE_FLAG == 1

Remote == <<82, 101, 109, 111, 116, 101>>      \* "Remote"

DefaultGpuInfo ==
    [name |-> <<>>, adapter_compatibility |-> <<>>, driver_version |-> <<>>,
     driver_date |-> <<>>, video_memory |-> 0, current_resolution |-> <<>>,
     refresh_rate |-> 0, video_processor |-> <<>>]

\* wchar_to_string: the units before the first NUL, or all of them
wchar_to_string(wchars) ==
    LET nul == {i \in 1..Len(wchars) : wchars[i] = 0}
        len == IF nul = {} THEN Len(wchars) ELSE Least(nul) - 1
    IN to_string_lossy(SubSeq(wchars, 1, len))

\* StateFlags & DISPLAY_DEVICE_ACTIVE_FLAG != 0 (the flag is bit 0)
IsActive(StateFlags) == (StateFlags \div DISPLAY_DEVICE_ACTIVE_FLAG) % 2 = 1

\* get_display_mode: EnumDisplaySettingsW(ENUM_CURRENT_SETTINGS) ('x' is 120)
get_display_mode(settings) ==
    IF settings.ok
    THEN Some([resolution |-> IntToStr(settings.dmPelsWidth) \o <<120>>
                                  \o IntToStr(settings.dmPelsHeight),
               refresh |-> settings.dmDisplayFrequency])
    ELSE [some |-> FALSE, val |-> [resolution |-> <<>>, refresh |-> 0],
          panic |-> FALSE]

\* a device pushed only when its display mode could be read
GpuPushWithMode(gpus, device) ==
    IF IsActive(device.StateFlags)
    THEN LET device_string == wchar_to_string(device.DeviceString) IN
         IF ~contains(device_string, Remote) /\ device_string # <<>>
         THEN LET mode == get_display_mode(device.settings)
                  gpu == [DefaultGpuInfo EXCEPT !.name = trim(device_string)]
              IN IF mode.some
                 THEN Append(gpus, [gpu EXCEPT !.current_resolution = mode.val.resolution,
                                               !.refresh_rate = mode.val.refresh])
                 ELSE gpus
         ELSE gpus
    ELSE gpus

\* the gpus after the device was looked at
GpuPush(gpus, device) ==
    IF IsActive(device.StateFlags)
    THEN LET device_string == wchar_to_string(device.DeviceString) IN
         IF ~contains(device_string, Remote) /\ device_string # <<>>
         THEN LET mode == get_display_mode(device.settings)
                  gpu == [DefaultGpuInfo EXCEPT !.name = trim(device_string)]
              IN Append(gpus,
                        IF mode.some
                        THEN [gpu EXCEPT !.current_resolution = mode.val.resolution,
                                         !.refresh_rate = mode.val.refresh]
                        ELSE gpu)
         ELSE gpus
    ELSE gpus

\* get_gpu_info: one EnumDisplayDevicesW call, for index hw.i
get_gpu_info ==
    /\ pc = "gpu_enum"
    /\ IF hw.i < Len(world.displays)
       THEN LET device == world.displays[hw.i + 1]
                gpus == GpuPush(hw.gpus, device)
            IN /\ calls' = calls \o
                     (IF Len(gpus) > Len(hw.gpus)
                      THEN <<Call("EnumDisplayDevicesW", ToString(hw.i)),
                             Call("EnumDisplaySettingsW", ToString(hw.i))>>
                      ELSE <<Call("EnumDisplayDevicesW", ToString(hw.i))>>)
               /\ hw' = [hw EXCEPT !.gpus = gpus, !.i = @ + 1]
               /\ pc' = "gpu_enum"
               /\ UNCHANGED info
       ELSE /\ calls' = Append(calls, Call("EnumDisplayDevicesW", ToString(hw.i)))
            /\ info' = [info EXCEPT !.gpus = hw.gpus]
            /\ pc' = "hw_return"
            /\ UNCHANGED hw
    /\ UNCHANGED <<world, fmt, app, sysVars, handles, hkey, rr, hwResult>>

\* Ok(info): collect returns the inventory
HardwareInfo_collect_return ==
    /\ pc = "hw_return"
    /\ hwResult' = [ok |-> TRUE, val |-> info]
    /\ pc' = "idle"
    /\ UNCHANGED <<world, fmt, app, sysVars, osVars, rr, hw, info>>

\* contents of a value read with read_registry_string
StringValues ==
    {SzValue(<<80, 67>>),
     SzValue(<<>>),                                       \* ""
     SzValue(<<55296, 80>>),                              \* a lone surrogate, "P"
     [type |-> REG_SZ, data |-> <<>>],                    \* no data at all
     [type |-> REG_SZ, data |-> Bytes(<<80, 67>>)],           \* "PC", no NUL
     [type |-> REG_SZ, data |-> <<80, 0, 67>>],           \* an odd byte count
     [type |-> REG_SZ, data |-> <<80>>],                  \* one byte
     [type |-> 2, data |-> Bytes(<<80, 67>> \o <<0>>)],       \* REG_EXPAND_SZ
     [type |-> 3, data |-> Bytes(<<80, 67>> \o <<0>>)],       \* REG_BINARY
     [type |-> 7, data |-> Bytes(<<80, 67>> \o <<0, 0>>)],    \* REG_MULTI_SZ
     DwordValue(17232),                                   \* REG_DWORD, bytes "PC"
     SzPadded(<<80, 67>>, STRING_BUFFER - 2),
     SzPadded(<<80, 67>>, STRING_BUFFER),                     \* filling the buffer
     SzPadded(<<80, 67>>, STRING_BUFFER + 2)}                 \* two bytes too large

\* contents of a value read with read_registry_dword
DwordValues ==
    {DwordValue(0), DwordValue(1), DwordValue(3007), DwordValue(86400),
     [type |-> REG_DWORD, data |-> <<7, 1>>],             \* two bytes only
     [type |-> REG_DWORD, data |-> <<>>],
     [type |-> REG_DWORD, data |-> <<7, 0, 0, 0, 0, 0, 0, 0>>],     \* too large
     [type |-> 3, data |-> <<7, 0, 0, 0>>],               \* REG_BINARY
     [type |-> 5, data |-> <<0, 0, 0, 7>>],               \* REG_DWORD_BIG_ENDIAN
     [type |-> 11, data |-> <<7, 0, 0, 0, 0, 0, 0, 0>>],  \* REG_QWORD
     SzValue(<<55>>)}

\* the sites whose value is varied
StringSites == {<<KEY_COMPUTER_NAME, "ComputerName">>, <<KEY_BIOS, "BIOSVersion">>}
DwordSites == {<<nt_path, "UBR">>, <<nt_path, "InstallDate">>}

RegistryWorlds ==
    {[RichWorld EXCEPT !.vals = Put(RichWorld.vals, p[1], p[2], v)] :
        p \in StringSites, v \in StringValues \cup DwordValues}
    \cup
    {[RichWorld EXCEPT !.vals = Put(RichWorld.vals, p[1], p[2], v)] :
        p \in DwordSites, v \in DwordValues \cup StringValues}
    \cup
    {[RichWorld EXCEPT !.vals = [q \in DOMAIN RichWorld.vals \ {p} |-> RichWorld.vals[q]]] :
        p \in StringSites \cup DwordSites}
    \cup
    {[RichWorld EXCEPT !.keys = RichWorld.keys \ {k}] :
        k \in {KEY_COMPUTER_NAME, KEY_BIOS, nt_path}}

\* a system of which only the Windows NT key can be read
NtWorld ==
    [BareWorld EXCEPT
        !.keys = {nt_path},
        !.vals = [q \in {p \in DOMAIN RichWorld.vals : p[1] = nt_path} |->
                     RichWorld.vals[q]]]

\* CurrentBuild, ProductName, DisplayVersion and ReleaseId
OsWorlds ==
    {[NtWorld EXCEPT !.vals =
         [q \in (DOMAIN Put(Put(Put(NtWorld.vals, nt_path, "CurrentBuild", b),
                                nt_path, "ProductName", n),
                            nt_path, "ReleaseId", SzValue(<<50, 48, 48, 57>>)))
                    \ ((IF b.type = 0 THEN {<<nt_path, "CurrentBuild">>} ELSE {})
                       \cup (IF n.type = 0 THEN {<<nt_path, "ProductName">>} ELSE {})
                       \cup (IF d THEN {} ELSE {<<nt_path, "DisplayVersion">>})
                       \cup (IF r THEN {} ELSE {<<nt_path, "ReleaseId">>}))
            |-> Put(Put(Put(NtWorld.vals, nt_path, "CurrentBuild", b),
                        nt_path, "ProductName", n),
                    nt_path, "ReleaseId", SzValue(<<50, 48, 48, 57>>))[q]]] :
        b \in {[type |-> 0, data |-> <<>>]}
                 \cup {SzValue(t) : t \in {<<50, 50, 54, 51, 49>>, <<50, 50, 48, 48, 48>>, <<50, 49, 57, 57, 57>>, <<49, 57, 48, 52, 53>>,
                                           <<49, 48, 50, 52, 48>>, <<49, 48, 50, 51, 57>>, <<57, 54, 48, 48>>, <<57, 50, 48, 48>>,
                                           <<55, 54, 48, 49>>, <<55, 54, 48, 48>>, <<55, 53, 57, 57>>, <<57, 49, 57, 57>>, <<57, 53, 57, 57>>, <<48>>, <<43, 57, 54, 48, 48>>,
                                           <<45, 49>>, <<32, 57, 54, 48, 48>>, <<97, 98, 99>>, <<>>,
                                           <<48, 48, 55, 54, 48, 49>>, <<52, 50, 57, 52, 57, 54, 55, 50, 57, 54>>}},
        n \in {[type |-> 0, data |-> <<>>]}
                 \cup {SzValue(t) : t \in {<<87, 105, 110, 100, 111, 119, 115, 32, 49, 48, 32, 80, 114, 111>>, <<87, 105, 110, 100, 111, 119, 115, 32, 55>>,
                                           <<87, 105, 110, 100, 111, 119, 115, 32, 49, 48, 32, 111, 110, 32, 87, 105, 110, 100, 111, 119, 115, 32, 49, 48>>,
                                           <<87, 105, 110, 100, 111, 119, 115, 32, 49, 49, 32, 72, 111, 109, 101>>}},
        d \in BOOLEAN, r \in BOOLEAN}

\* the processor keys that exist, and what GetNativeSystemInfo reports
CpuWorlds ==
    {[b EXCEPT !.keys = (b.keys \ {cpu_path(0), cpu_path(1)})
                            \cup {cpu_path(i) : i \in c},
               !.vals = [q \in DOMAIN b.vals \cup
                                  {<<cpu_path(i), "ProcessorNameString">> : i \in c \ v}
                            |-> IF q \in DOMAIN b.vals THEN b.vals[q]
                                ELSE SzValue(<<32, 67, 111, 114, 101, 32, 105, 55, 32>>)],
               !.sys = [wProcessorArchitecture |-> a, dwNumberOfProcessors |-> Cardinality(c)]] :
        b \in Baselines,
        c \in {{}, {0}, 0..3, {0, 1, 3}, {1, 2}},
        v \in {{}, {2}},
        a \in {0, 5, 6, 9, 12, 65535}}
    \cup
    {[RichWorld EXCEPT
         !.keys = RichWorld.keys \cup {cpu_path(i) : i \in 0..n},
         !.vals = [q \in DOMAIN RichWorld.vals \cup
                            {<<cpu_path(i), "ProcessorNameString">> : i \in 0..n}
                      |-> IF q \in DOMAIN RichWorld.vals THEN RichWorld.vals[q]
                          ELSE SzValue(<<32, 67, 111, 114, 101, 32, 105, 55, 32>>)]] :
        n \in {PROCESSOR_LIMIT - 2, PROCESSOR_LIMIT - 1, PROCESSOR_LIMIT}}

MemoryWorlds ==
    {[b EXCEPT !.mem = m] :
        b \in Baselines,
        m \in {NoMemory,
               [ok |-> TRUE, ullTotalPhys |-> 8192, ullAvailPhys |-> 0,
                ullTotalVirtual |-> 8192, ullAvailVirtual |-> 1, dwMemoryLoad |-> 100]}}

\* descriptors of a drive: strings that are absent, out of the buffer, not
\* terminated, not UTF-8, empty or blank
Descriptors ==
    {DescriptorBytes(rm, 11, 36, 43, 47, GoodTail) : rm \in {0, 1, 255}}
    \cup {DescriptorBytes(0, bus, 36, 0, 0, GoodTail) : bus \in 0..18 \cup {99, 127, 65536}}
    \cup {DescriptorBytes(0, 7, p, 43, 47, GoodTail) :
             p \in {0, 1, 37, 42, 53, 100, 4095, 4096, 4097, 65536}}
    \cup {DescriptorBytes(0, 7, 43, p, p, GoodTail) : p \in {0, 47, 4096, 70000}}
    \cup {DescriptorBytes(0, 7, 36, 0, 40, <<83, 255, 195, 40, 226, 130, 172, 0>>),
          DescriptorBytes(0, 7, 36, 38, 0, <<32, 32, 0>>),
          DescriptorBytes(0, 7, 4090, 4094, 4095,
                          [i \in 1..(DESCRIPTOR_BUFFER - 36) |-> 65]),
          DescriptorBytes(0, 7, 4090, 0, 0,
                          [i \in 1..(DESCRIPTOR_BUFFER - 36) |->
                              IF i = DESCRIPTOR_BUFFER - 36 THEN 0 ELSE 66]),
          <<1>>,
          Le32(36) \o Le32(36) \o <<0, 0, 1, 0>> \o Le32(0) \o <<36>>}

\* a removable USB drive, model "USB", of 1024 bytes
UsbDrive ==
    [open |-> "ok",
     property |-> [ok |-> TRUE,
                   data |-> DescriptorBytes(1, 7, 36, 0, 0, <<85, 83, 66, 0>>)],
     length |-> [ok |-> TRUE, bytes |-> <<0, 4, 0, 0, 0, 0, 0, 0>>]]

Lengths ==
    {[ok |-> FALSE, bytes |-> <<9, 9, 9, 9, 9, 9, 9, 9>>],
     [ok |-> TRUE, bytes |-> <<0, 0, 0, 0, 0, 0, 0, 0>>],
     [ok |-> TRUE, bytes |-> <<1, 0, 0, 0, 0, 0, 0, 0>>],
     [ok |-> TRUE, bytes |-> <<0, 0, 0, 0, 0, 0, 0, 128>>]}

DiskWorlds ==
    {[BareWorld EXCEPT
         !.drives[1] = [open |-> "ok", property |-> [ok |-> TRUE, data |-> d],
                        length |-> l]] :
        d \in Descriptors, l \in Lengths}
    \cup
    {[b EXCEPT !.drives[1] = [GoodDrive EXCEPT !.open = o, !.property = p]] :
        b \in Baselines, o \in {"ok", "fail", "invalid"},
        p \in {[ok |-> FALSE, data |-> <<>>], [ok |-> TRUE, data |-> <<>>],
               [ok |-> FALSE, data |-> GoodDrive.property.data]}}
    \cup
    {[BareWorld EXCEPT !.drives = [i \in 1..DRIVE_LIMIT |->
                                      IF i \in on THEN GoodDrive ELSE AbsentDrive]] :
        on \in {{}, {1}, {2}, {1, 3}, {DRIVE_LIMIT}, 1..DRIVE_LIMIT}}
    \cup
    {[BareWorld EXCEPT !.drives = [i \in 1..DRIVE_LIMIT |->
                                      IF i = g THEN GoodDrive
                                      ELSE IF i = u THEN UsbDrive
                                      ELSE IF i = f THEN [GoodDrive EXCEPT !.open = "fail"]
                                      ELSE AbsentDrive]] :
        g \in {2, 9}, u \in {1, 5, DRIVE_LIMIT}, f \in {3, 4}}

DeviceStrings ==
    {GpuName \o <<0, 0>>, GpuName,
     <<0>> \o GpuName, <<32, 0>>, <<32, 32>>, <<>>,
     <<77, 105, 99, 114, 111, 115, 111, 102, 116, 32, 82, 101, 109, 111, 116, 101, 32, 68, 105, 115, 112, 108, 97, 121, 32, 65, 100, 97, 112, 116, 101, 114>> \o <<0>>,
     <<114, 101, 109, 111, 116, 101>> \o <<0>>,
     <<71, 80, 85>> \o <<0>> \o <<82, 101, 109, 111, 116, 101>>,
     <<55296, 71>>}

Displays ==
    {[StateFlags |-> f, DeviceString |-> n, settings |-> m] :
        f \in {0, 1, 4, 5, 134217729},
        n \in DeviceStrings,
        m \in {[ok |-> FALSE, dmPelsWidth |-> 0, dmPelsHeight |-> 0,
                dmDisplayFrequency |-> 0],
               [ok |-> TRUE, dmPelsWidth |-> 1920, dmPelsHeight |-> 1080,
                dmDisplayFrequency |-> 60],
               [ok |-> TRUE, dmPelsWidth |-> 0, dmPelsHeight |-> 0,
                dmDisplayFrequency |-> 0]}}

GpuWorlds ==
    {[BareWorld EXCEPT !.displays = <<d>>] : d \in Displays}
    \cup
    {[BareWorld EXCEPT !.displays = RichWorld.displays \o <<d>> \o RichWorld.displays] :
        d \in Displays}

\* CurrentBuild and UBR, each readable or not
UbrWorlds ==
    {[NtWorld EXCEPT !.vals =
         [q \in (DOMAIN NtWorld.vals \ {<<nt_path, "CurrentBuild">>, <<nt_path, "UBR">>})
                    \cup {<<nt_path, "CurrentBuild">> : x \in {b} \ {[type |-> 0, data |-> <<>>]}}
                    \cup {<<nt_path, "UBR">> : x \in {u} \ {[type |-> 0, data |-> <<>>]}}
            |-> IF q = <<nt_path, "CurrentBuild">> THEN b
                ELSE IF q = <<nt_path, "UBR">> THEN u
                ELSE NtWorld.vals[q]]] :
        b \in {[type |-> 0, data |-> <<>>], DwordValue(9600)}
                 \cup {SzValue(t) : t \in {<<57, 54, 48, 48>>, <<48>>, <<97, 98, 99>>, <<48, 48, 55, 54, 48, 49>>, <<49>>}},
        u \in {[type |-> 0, data |-> <<>>], DwordValue(0), DwordValue(3007),
               [type |-> REG_DWORD, data |-> <<7, 1>>], SzValue(<<51, 48, 48, 55>>)}}

HwWorlds ==
    UbrWorlds \cup RegistryWorlds \cup OsWorlds \cup CpuWorlds \cup MemoryWorlds \cup DiskWorlds
        \cup GpuWorlds

(***************************************************************************)
(* format_bytes                                                            *)
(***************************************************************************)

\* A u64 is held as its base-1024 digits, lowest first: seven of them, the
\* last below 16.
KB == 1024                    \* const KB: u64 = 1024
LIMBS == 7                    \* 2^64 = 16 * 1024^6
MANTISSA == 53                \* the significant bits of an f64

\* digits of any size brought below 1024 by carrying; the last keeps the rest
Carried(d) ==
    LET c[i \in 0..Len(d)] == IF i = 0 THEN 0 ELSE (d[i] + c[i - 1]) \div KB IN
    [i \in 1..Len(d) |-> IF i = Len(d) THEN d[i] + c[i - 1]
                         ELSE (d[i] + c[i - 1]) % KB]

\* bytes >= 1024^k
AtLeast(bytes, k) == \E i \in (k + 1)..Len(bytes) : bytes[i] # 0

\* bytes as f64: nearest value of 53 significant bits, ties to even; the
\* bits from 2^50 up are in the last two digits, the bits dropped (11 at
\* most) in the first two
as_f64(bytes) ==
    LET top == bytes[LIMBS - 1] + KB * bytes[LIMBS]
        bits == CHOOSE n \in 0..14 : top < 2 ^ n /\ (n = 0 \/ top >= 2 ^ (n - 1))
        q == 2 ^ (50 + bits - MANTISSA)
        low == bytes[1] + KB * bytes[2]
        rest == low % q
        up == 2 * rest > q \/ (2 * rest = q /\ (low \div q) % 2 = 1)
    IN IF 50 + bits <= MANTISSA THEN bytes
       ELSE Carried([bytes EXCEPT ![1] = low - rest + (IF up THEN q ELSE 0),
                                  ![2] = 0])

\* the digits of x from the i-th up, as a number
RECURSIVE Whole(_, _)
Whole(x, i) == IF i > Len(x) THEN 0 ELSE x[i] + KB * Whole(x, i + 1)

\* format!("{:.2}", x / 1024^k) for x a whole number held in an f64: the
\* quotient is exact, and is printed rounded to hundredths, ties to even
\* ('.' is 46)
Fixed2(x, k) ==
    LET hundred == Carried([i \in 1..(k + 1) |-> IF i <= k THEN 100 * x[i] ELSE 0])
        above == hundred[k] > KB \div 2
                     \/ (hundred[k] = KB \div 2 /\ \E i \in 1..(k - 1) : hundred[i] # 0)
        tie == hundred[k] = KB \div 2 /\ \A i \in 1..(k - 1) : hundred[i] = 0
        cents == 100 * Whole(x, k + 1) + hundred[k + 1]
                     + (IF above \/ (tie /\ hundred[k + 1] % 2 = 1) THEN 1 ELSE 0)
    IN IntToStr(cents \div 100) \o <<46>> \o Pad2(cents % 100)

\* format_bytes with thresholds that are exclusive
format_bytes_exclusive(bytes) ==
    LET Above(k) == AtLeast(bytes, k) /\ bytes # [i \in 1..LIMBS |-> IF i = k + 1 THEN 1 ELSE 0] IN
    IF Above(4) THEN Fixed2(as_f64(bytes), 4) \o <<32, 84, 66>>
    ELSE IF Above(3) THEN Fixed2(as_f64(bytes), 3) \o <<32, 71, 66>>
    ELSE IF Above(2) THEN Fixed2(as_f64(bytes), 2) \o <<32, 77, 66>>
    ELSE IF Above(1) THEN Fixed2(as_f64(bytes), 1) \o <<32, 75, 66>>
    ELSE IntToStr(bytes[1] + KB * bytes[2]) \o <<32, 66, 121, 116, 101, 115>>

format_bytes(bytes) ==
    IF AtLeast(bytes, 4) THEN Fixed2(as_f64(bytes), 4) \o <<32, 84, 66>>
    ELSE IF AtLeast(bytes, 3) THEN Fixed2(as_f64(bytes), 3) \o <<32, 71, 66>>
    ELSE IF AtLeast(bytes, 2) THEN Fixed2(as_f64(bytes), 2) \o <<32, 77, 66>>
    ELSE IF AtLeast(bytes, 1) THEN Fixed2(as_f64(bytes), 1) \o <<32, 75, 66>>
    ELSE IntToStr(bytes[1]) \o <<32, 66, 121, 116, 101, 115>>

NoFormat == [bytes |-> [i \in 1..LIMBS |-> 0], result |-> <<>>]

\* a call of format_bytes
format_bytes_call ==
    /\ pc = "format_bytes"
    /\ fmt' = [fmt EXCEPT !.result = format_bytes(fmt.bytes)]
    /\ pc' = "format_bytes_return"
    /\ UNCHANGED <<world, app, sysVars, osVars, hwVars>>

\* arguments of format_bytes: around each unit and around 2^53, with
\* fractions that round down, round up and tie
FormatInputs ==
    {<<a, b, c, d, e, f, g>> :
        a \in {0, 1, 128, 384, 512, 1023}, b \in {0, 1, 512, 1023},
        c \in {0, 1, 1023}, d \in {0, 1, 1023}, e \in {0, 1, 1023},
        f \in {0, 7, 8, 1023}, g \in {0, 15}}

(***************************************************************************)
(* App::refresh_all_info (ui/hardware_info.rs)                             *)
(***************************************************************************)

\* Option<T> of a snapshot
Absent == [some |-> FALSE]
Present(v) == [some |-> TRUE, val |-> v]

\* snapshots of an earlier refresh, on another machine state
OldSystemInfo ==
    [boot_mode |-> "Legacy", tpm_enabled |-> TRUE, tpm_version |-> <<49, 46, 50>>,
     secure_boot |-> FALSE, is_pe_environment |-> TRUE, is_online |-> FALSE]

OldHardwareInfo == [DefaultHardwareInfo EXCEPT !.computer_name = <<79, 76, 68>>]

PartitionC ==
    [letter |-> "C:", label |-> "System", total_size_mb |-> 102400,
     free_size_mb |-> 51200, is_system_partition |-> TRUE, has_windows |-> TRUE]

PartitionD ==
    [letter |-> "D:", label |-> "Data", total_size_mb |-> 204800,
     free_size_mb |-> 204800, is_system_partition |-> FALSE, has_windows |-> FALSE]

PartitionLists == {<<>>, <<PartitionC>>, <<PartitionC, PartitionD>>, <<PartitionD>>}

\* DiskManager::get_partitions(): what a call may return, a list or an error
get_partitions ==
    {[ok |-> TRUE, val |-> p] : p \in PartitionLists} \cup {[ok |-> FALSE]}

\* the order in which refresh_all_info runs the collections
RefreshOrder == <<"system", "hardware", "partitions">>

\* the three values the App holds; step is the position of refresh_all_info,
\* before the values at its entry, ran the collections it has called, result
\* what get_partitions returned to it
NoApp ==
    [system_info |-> Absent, hardware_info |-> Absent, partitions |-> <<>>,
     step |-> "idle",
     before |-> [system_info |-> Absent, hardware_info |-> Absent,
                 partitions |-> <<>>],
     ran |-> <<>>,
     result |-> [ok |-> FALSE]]

\* refresh_all_info: entered, SystemInfo::collect() called
refresh_all_info ==
    /\ app.step = "idle"
    /\ SystemInfo_enter
    /\ app' = [app EXCEPT !.step = "system",
                          !.before = [system_info |-> app.system_info,
                                      hardware_info |-> app.hardware_info,
                                      partitions |-> app.partitions],
                          !.ran = <<"system">>,
                          !.result = [ok |-> FALSE]]

\* if let Ok(info) = SystemInfo::collect() { self.system_info = Some(info) };
\* HardwareInfo::collect() called
refresh_system_info ==
    /\ app.step = "system"
    /\ HardwareInfo_enter
    /\ app' = [app EXCEPT !.system_info = IF sysResult.ok
                                          THEN Present(sysResult.val) ELSE @,
                          !.step = "hardware",
                          !.ran = Append(@, "hardware")]

\* if let Ok(info) = HardwareInfo::collect() { self.hardware_info = Some(info) };
\* DiskManager::get_partitions() called
refresh_hardware_info ==
    /\ app.step = "hardware"
    /\ pc = "idle"
    /\ app' = [app EXCEPT !.hardware_info = IF hwResult.ok
                                            THEN Present(hwResult.val) ELSE @,
                          !.step = "partitions",
                          !.ran = Append(@, "partitions")]
    /\ UNCHANGED <<world, fmt, pc, sysVars, osVars, hwVars>>

\* the partition list emptied when get_partitions fails
refresh_partitions_clearing ==
    /\ app.step = "partitions"
    /\ \E r \in get_partitions :
          app' = [app EXCEPT !.partitions = IF r.ok THEN r.val ELSE <<>>,
                             !.step = "idle",
                             !.result = r]
    /\ UNCHANGED <<world, fmt, pc, sysVars, osVars, hwVars>>

\* if let Ok(partitions) = get_partitions() { self.partitions = partitions };
\* refresh_all_info returns
refresh_partitions ==
    /\ app.step = "partitions"
    /\ \E r \in get_partitions :
          app' = [app EXCEPT !.partitions = IF r.ok THEN r.val ELSE @,
                             !.step = "idle",
                             !.result = r]
    /\ UNCHANGED <<world, fmt, pc, sysVars, osVars, hwVars>>

(***************************************************************************)
(* Specification                                                           *)
(***************************************************************************)

Worlds == SysWorlds \cup HwWorlds

Init ==
    /\ world \in Worlds
    /\ pc = "idle"
    /\ handles = <<>>
    /\ hkey = 0
    /\ calls = <<>>
    /\ loc = InitLoc
    /\ sysResult = NoResult
    /\ rr = NoFrame
    /\ hw = InitHw
    /\ info = DefaultHardwareInfo
    /\ hwResult = NoResult
    /\ fmt = NoFormat
    /\ app = NoApp

Next ==
    \/ SystemInfo_collect
    \/ check_pe_fbwf
    \/ check_pe_winpeshl
    \/ check_pe_sysdrive
    \/ check_pe_minint
    \/ check_minint_registry_open
    \/ check_minint_registry_close
    \/ check_pe_drive_files
    \/ get_boot_mode_marker
    \/ get_boot_mode_firmware
    \/ SystemInfo_collect_boot_mode
    \/ check_tpm_registry_service
    \/ check_tpm_registry_service_close
    \/ check_tpm_registry_acpi
    \/ check_tpm_registry_acpi_close
    \/ get_tpm_version_open
    \/ get_tpm_version_query
    \/ get_tpm_version_close
    \/ get_tpm_version_acpi
    \/ get_tpm_version_acpi_close
    \/ get_secure_boot_open
    \/ get_secure_boot_query
    \/ get_secure_boot_close
    \/ check_network
    \/ SystemInfo_collect_return
    \/ read_registry_string_open
    \/ read_registry_string_query
    \/ read_registry_string_close
    \/ read_registry_dword_open
    \/ read_registry_dword_query
    \/ read_registry_dword_close
    \/ HardwareInfo_collect
    \/ get_computer_info_name
    \/ get_computer_info_manufacturer
    \/ get_computer_info_model
    \/ get_os_info_build
    \/ get_os_info_name
    \/ get_os_info_display_version
    \/ get_os_info_release_id
    \/ get_os_info_ubr
    \/ get_os_info_architecture
    \/ get_os_info_product_id
    \/ get_os_info_owner
    \/ get_os_info_install_date
    \/ get_cpu_info_system_info
    \/ get_cpu_info_name
    \/ get_cpu_info_vendor
    \/ get_cpu_info_mhz
    \/ get_cpu_info_core
    \/ get_memory_info
    \/ get_motherboard_info_manufacturer
    \/ get_motherboard_info_product
    \/ get_motherboard_info_version
    \/ get_bios_info_vendor
    \/ get_bios_info_version
    \/ get_bios_info_release_date
    \/ get_bios_info_smbios
    \/ query_disk_info_open
    \/ query_disk_info_query
    \/ query_disk_info_property
    \/ query_disk_info_close
    \/ get_gpu_info
    \/ HardwareInfo_collect_return

Spec == Init /\ [][Next]_vars

\* format_bytes on its own: the argument is drawn, the function is called
FormatInit ==
    /\ world = BareWorld
    /\ pc = "format_bytes"
    /\ handles = <<>>
    /\ hkey = 0
    /\ calls = <<>>
    /\ loc = InitLoc
    /\ sysResult = NoResult
    /\ rr = NoFrame
    /\ hw = InitHw
    /\ info = DefaultHardwareInfo
    /\ hwResult = NoResult
    /\ fmt \in {[bytes |-> b, result |-> <<>>] : b \in FormatInputs}
    /\ app = NoApp

FormatNext == format_bytes_call

FormatSpec == FormatInit /\ [][FormatNext]_vars

\* the machines on which the panel is refreshed
RefreshWorlds == Baselines

\* the panel with the values of an earlier refresh, or with none yet
RefreshInit ==
    /\ world \in RefreshWorlds
    /\ pc = "idle"
    /\ handles = <<>>
    /\ hkey = 0
    /\ calls = <<>>
    /\ loc = InitLoc
    /\ sysResult = NoResult
    /\ rr = NoFrame
    /\ hw = InitHw
    /\ info = DefaultHardwareInfo
    /\ hwResult = NoResult
    /\ fmt = NoFormat
    /\ app \in {[NoApp EXCEPT !.system_info = s, !.hardware_info = h,
                               !.partitions = p] :
                    s \in {Absent, Present(OldSystemInfo)},
                    h \in {Absent, Present(OldHardwareInfo)},
                    p \in PartitionLists}

\* a step of the collection that refresh_all_info is waiting for
CollectStep == pc # "idle" /\ Next

RefreshNext ==
    \/ refresh_all_info
    \/ CollectStep
    \/ refresh_system_info
    \/ refresh_hardware_info
    \/ refresh_partitions

RefreshSpec == RefreshInit /\ [][RefreshNext]_vars


(***************************************************************************)
(* What the claims speak of                                                *)
(***************************************************************************)

\* the call of fn has just returned to its caller
ReturnedFrom(fn) == rr.fn = fn /\ pc = rr.ret

\* the value the registry holds under key and name, if any
Stored(key, name) == <<key, name>> \in DOMAIN world.vals
StoredValue(key, name) == world.vals[<<key, name>>]

\* the RegQueryValueExW calls made since the last RegOpenKeyExW
QueriesSinceOpen ==
    LET opens == {i \in 1..Len(calls) : calls[i].api = "RegOpenKeyExW"}
        last == CHOOSE i \in opens : \A j \in opens : j <= i
    IN IF opens = {} THEN 0
       ELSE Cardinality({i \in last..Len(calls) : calls[i].api = "RegQueryValueExW"})

\* the text a string value's data stands for: its wide characters up to the
\* terminating NUL, or all of them when there is none
StoredText(data) ==
    LET wide == [i \in 1..(Len(data) \div 2) |-> BufWide(data, i)]
        nul == {i \in 1..Len(wide) : wide[i] = 0}
    IN from_utf16_lossy(SubSeq(wide, 1, IF nul = {} THEN Len(wide) ELSE Least(nul) - 1))

\* an EFI marker path exists
MarkerExists == \E i \in 1..Len(EfiMarkers) : Exists(EfiMarkers[i])

\* the six signals of the PE detector, as facts about the machine; the
\* system drive is X: whichever the case of the letter ('x' is 120)
PeSignals ==
    <<Exists(Path(DriveX, FBWF)),
      Exists(Path(DriveX, WINPESHL)),
      world.sysDrive.set /\ world.sysDrive.val \in {DriveX, <<120, 58>>},
      Exists(Path(DriveX, MININT)),
      KEY_MININT \in world.keys,
      world.sysDrive.set /\ (\/ Exists(Path(world.sysDrive.val, FBWF))
                             \/ Exists(Path(world.sysDrive.val, WINPESHL)))>>

\* the locations at which a detector holds a handle it has opened
HoldingPcs ==
    {"minint_close", "tpm_service_close", "tpm_acpi_close", "version_query",
     "version_close", "version_acpi_close", "secure_boot_query",
     "secure_boot_close", "string_query", "string_close", "dword_query",
     "dword_close", "disk_query", "disk_property", "disk_close"}

(***************************************************************************)
(* The claims                                                              *)
(***************************************************************************)

\* C1: HardwareInfo::collect() and SystemInfo::collect() return Ok whatever
\* the detectors meet: no collect ever returns Err, and none panics.
C1_CollectReturnsOk ==
    /\ pc # "panic"
    /\ sysResult # NoResult => sysResult.ok
    /\ hwResult # NoResult => hwResult.ok

\* both collects have returned Ok on a machine where no key opens, no drive
\* opens, no display is enumerated, no address answers and the firmware call
\* fails with error 5
C1_Witness ==
    /\ world.keys = {} /\ world.net = {} /\ world.displays = <<>>
    /\ world.drives = NoDrives /\ ~world.mem.ok
    /\ world.fw = [ret |-> 0, err |-> 5]
    /\ pc = "idle" /\ sysResult.ok /\ hwResult.ok

\* C2: when an EFI marker path exists, get_boot_mode returns UEFI whatever the
\* firmware call would report, and it has not made the firmware call.
C2_MarkerShortCircuits ==
    (pc = "boot_ret" /\ MarkerExists) =>
        /\ loc.boot = [ok |-> TRUE, val |-> "UEFI"]
        /\ ~Called("GetFirmwareEnvironmentVariableW")

\* get_boot_mode has returned on a machine that has a marker only at C:\EFI
\* and whose firmware call would have given the Legacy signature
C2_Witness ==
    /\ pc = "boot_ret"
    /\ world.fs = {EfiMarkers[2]}
    /\ world.fw = [ret |-> 0, err |-> ERROR_INVALID_FUNCTION]

\* C3: get_boot_mode returns Legacy if and only if no marker exists, the
\* firmware call returned 0 and the error code is 1; otherwise it returns
\* UEFI; it returns one of the two and never an error.
C3_LegacyIffInvalidFunction ==
    pc = "boot_ret" =>
        /\ loc.boot.ok
        /\ loc.boot.val \in {"UEFI", "Legacy"}
        /\ loc.boot.val = "Legacy" <=>
              (~MarkerExists /\ world.fw.ret = 0
                   /\ world.fw.err = ERROR_INVALID_FUNCTION)

\* get_boot_mode has returned UEFI after the firmware call failed with an
\* error code other than 1
C3_Witness ==
    /\ pc = "boot_ret"
    /\ ~MarkerExists /\ world.fw.ret = 0 /\ world.fw.err = 2
    /\ loc.boot.val = "UEFI"

\* C4: check_pe_environment returns true exactly when at least one of its six
\* signals is true of the machine, so also when a single one is.
C4_PeIsOrOfSignals ==
    pc = "boot_marker" => (loc.is_pe <=> \E k \in 1..6 : PeSignals[k])

\* check_pe_environment has returned true when only the sixth signal holds,
\* through winpeshl.ini under a SystemDrive that is not X:
C4_Witness ==
    /\ pc = "boot_marker"
    /\ loc.is_pe
    /\ \A k \in 1..5 : ~PeSignals[k]
    /\ PeSignals[6] /\ ~Exists(Path(world.sysDrive.val, FBWF))

\* C5: get_tpm_info reports the TPM present exactly when the TPM service key
\* or the ACPI device key can be opened; when neither can, it returns
\* (false, "") and has not looked the version up.
C5_TpmPresenceIsOr ==
    pc = "secure_boot_open" =>
        /\ loc.tpm_enabled <=>
              (KEY_TPM_SERVICE \in world.keys \/ KEY_TPM_ACPI \in world.keys)
        /\ (KEY_TPM_SERVICE \notin world.keys /\ KEY_TPM_ACPI \notin world.keys) =>
              /\ loc.tpm_version = <<>>
              /\ ~CalledWith("RegOpenKeyExW", KEY_TPM_SOFTWARE)
              /\ ~Called("RegQueryValueExW")

\* get_tpm_info has returned absent on a machine whose TPM software key, with
\* a SpecVersion, could have been read
C5_Witness ==
    /\ pc = "secure_boot_open"
    /\ ~loc.tpm_enabled
    /\ KEY_TPM_SOFTWARE \in world.keys
    /\ Stored(KEY_TPM_SOFTWARE, "SpecVersion")

\* C6: when the TPM is present and the SpecVersion value can be read, the
\* version is the value's text before its first comma, trimmed; when it
\* cannot be read the version is "2.0".
C6_SpecVersionWins ==
    (pc = "secure_boot_open" /\ loc.tpm_enabled) =>
        loc.tpm_version =
            IF /\ KEY_TPM_SOFTWARE \in world.keys
               /\ Stored(KEY_TPM_SOFTWARE, "SpecVersion")
               /\ Len(StoredValue(KEY_TPM_SOFTWARE, "SpecVersion").data) <= TPM_BUFFER
            THEN trim(split_first(
                     StoredText(StoredValue(KEY_TPM_SOFTWARE, "SpecVersion").data), 44))
            ELSE Version20

\* C7: get_secure_boot returns true exactly when the SecureBoot\State key
\* opens, UEFISecureBootEnabled is read, and the value read is 1; it never
\* returns an error.
C7_SecureBootIffOne ==
    pc = "network" =>
        /\ loc.secure.ok
        /\ loc.secure_boot = loc.secure.val
        /\ loc.secure_boot <=>
              /\ KEY_SECURE_BOOT \in world.keys
              /\ Stored(KEY_SECURE_BOOT, "UEFISecureBootEnabled")
              /\ LET data == StoredValue(KEY_SECURE_BOOT, "UEFISecureBootEnabled").data
                 IN Len(data) <= DWORD_SIZE /\ BufU32(data, 0) = 1

\* get_secure_boot has returned false after reading the value 2
C7_Witness ==
    /\ pc = "network"
    /\ KEY_SECURE_BOOT \in world.keys
    /\ Stored(KEY_SECURE_BOOT, "UEFISecureBootEnabled")
    /\ StoredValue(KEY_SECURE_BOOT, "UEFISecureBootEnabled") = DwordValue(2)
    /\ ~loc.secure_boot

\* C8: read_registry_string returns a value only for a value of type 1, and
\* read_registry_dword only for a value of type 4: a value of another type is
\* answered with None.
C8_TypeChecked ==
    /\ (ReturnedFrom("read_registry_string") /\ rr.result.some) =>
          /\ Stored(rr.key, rr.name)
          /\ StoredValue(rr.key, rr.name).type = REG_SZ
    /\ (ReturnedFrom("read_registry_dword") /\ rr.result.some) =>
          /\ Stored(rr.key, rr.name)
          /\ StoredValue(rr.key, rr.name).type = REG_DWORD

\* read_registry_string has returned None for a value that could be queried
\* and holds the bytes of a string under the type REG_EXPAND_SZ
C8_Witness ==
    /\ ReturnedFrom("read_registry_string")
    /\ rr.key \in world.keys
    /\ Stored(rr.key, rr.name)
    /\ StoredValue(rr.key, rr.name).type = 2
    /\ ~rr.result.some

\* C9: no handle is closed twice, and wherever no detector is between its
\* open and its close every handle that was opened has been closed; so no
\* handle is open once a collect has returned.
C9_HandlesClosedOnce ==
    /\ \A i \in 1..Len(handles) : handles[i].state # "double"
    /\ pc \notin HoldingPcs => \A i \in 1..Len(handles) : handles[i].state = "closed"

\* query_disk_info has returned after the property query failed on a drive
\* that it had opened
C9_Witness ==
    /\ pc = "disk_open" /\ hw.i = 1
    /\ world.drives[1].open = "ok" /\ ~world.drives[1].property.ok
    /\ \E i \in 1..Len(handles) : handles[i].kind = "device"

\* C10: for a string value larger than the 1024-byte buffer,
\* read_registry_string returns the text cut at the buffer's capacity, a
\* present string, after exactly one query.
C10_TruncatedNotRetried ==
    (/\ ReturnedFrom("read_registry_string")
     /\ rr.key \in world.keys
     /\ Stored(rr.key, rr.name)
     /\ StoredValue(rr.key, rr.name).type = REG_SZ
     /\ Len(StoredValue(rr.key, rr.name).data) > STRING_BUFFER) =>
        /\ rr.result.some
        /\ \E n \in 0..(STRING_BUFFER \div 2) :
              rr.result.val =
                  StoredText(SubSeq(StoredValue(rr.key, rr.name).data, 1, 2 * n))
        /\ QueriesSinceOpen = 1

\* HardwareInfo::collect has built the inventory it returns
Collected == pc = "hw_return"

\* a string value that can be read: its key opens, it is stored as REG_SZ,
\* it fits the accessor's buffer and holds at least one wide character
ReadableString(key, name) ==
    /\ key \in world.keys
    /\ Stored(key, name)
    /\ StoredValue(key, name).type = REG_SZ
    /\ Len(StoredValue(key, name).data) \in 2..STRING_BUFFER

\* the build number of the machine: the number CurrentBuild spells, 0 when
\* the value cannot be read or is no number
MachineBuild ==
    IF ReadableString(nt_path, "CurrentBuild")
          /\ parse_u32(StoredText(StoredValue(nt_path, "CurrentBuild").data)).ok
    THEN parse_u32(StoredText(StoredValue(nt_path, "CurrentBuild").data)).val
    ELSE 0

\* the marketing name of a build number
InferredName(b) ==
    CASE b >= 22000 -> <<87, 105, 110, 100, 111, 119, 115, 32, 49, 49>>
      [] b \in 10240..21999 -> <<87, 105, 110, 100, 111, 119, 115, 32, 49, 48>>
      [] b \in 9600..10239 -> <<87, 105, 110, 100, 111, 119, 115, 32, 56, 46, 49>>
      [] b \in 9200..9599 -> <<87, 105, 110, 100, 111, 119, 115, 32, 56>>
      [] b \in 7600..9199 -> <<87, 105, 110, 100, 111, 119, 115, 32, 55>>
      [] b < 7600 -> <<87, 105, 110, 100, 111, 119, 115>>

\* C11: when ProductName cannot be read, the OS name of the inventory is the
\* label of the highest threshold the build number reaches (22000, 10240,
\* 9600, 9200, 7600), and "Windows" below 7600, a missing or unparsable
\* CurrentBuild counting as build 0.
C11_NameInferredFromBuild ==
    (Collected /\ ~ReadableString(nt_path, "ProductName"))
        => info.os.name = InferredName(MachineBuild)

\* build 9599, one below the Windows 8.1 threshold, has been named "Windows 8"
C11_Witness ==
    /\ Collected
    /\ ~ReadableString(nt_path, "ProductName")
    /\ MachineBuild = 9599
    /\ info.os.name = <<87, 105, 110, 100, 111, 119, 115, 32, 56>>

\* the product name the registry holds
MachineProductName == StoredText(StoredValue(nt_path, "ProductName").data)

\* C12: a ProductName that contains "Windows 10" on a build of 22000 or more
\* gives an OS name that contains "Windows 11" and no "Windows 10"; on a
\* lower build, or without "Windows 10" in it, the name is that of the
\* registry, unchanged.
C12_NameCorrected ==
    (Collected /\ ReadableString(nt_path, "ProductName"))
        => IF MachineBuild >= 22000 /\ contains(MachineProductName, Windows10)
           THEN /\ contains(info.os.name, Windows11)
                /\ ~contains(info.os.name, Windows10)
           ELSE info.os.name = MachineProductName

\* a name with two occurrences of "Windows 10" has been corrected on build
\* 22000
C12_Witness ==
    /\ Collected
    /\ ReadableString(nt_path, "ProductName")
    /\ MachineBuild = 22000
    /\ Cardinality(Occurrences(MachineProductName, Windows10)) = 2
    /\ info.os.name = <<87, 105, 110, 100, 111, 119, 115, 32, 49, 49, 32, 111, 110, 32, 87, 105, 110, 100, 111, 119, 115, 32, 49, 49>>

\* a dword value that can be read: its key opens, it is stored as REG_DWORD
\* and fits in four bytes
ReadableDword(key, name) ==
    /\ key \in world.keys
    /\ Stored(key, name)
    /\ StoredValue(key, name).type = REG_DWORD
    /\ Len(StoredValue(key, name).data) <= DWORD_SIZE

\* the build number followed by ".UBR" when UBR can be read
FullBuild ==
    IntToStr(MachineBuild)
        \o (IF ReadableDword(nt_path, "UBR")
            THEN <<46>> \o IntToStr(BufDword(StoredValue(nt_path, "UBR").data))
            ELSE <<>>)

\* C13: the build string of the inventory is "{build}.{UBR}" when UBR can be
\* read and "{build}" otherwise, whether or not CurrentBuild can be read and
\* parsed (a missing or unparsable CurrentBuild being build 0).
C13_BuildStringAlways ==
    Collected => info.os.build_number = FullBuild

\* C13, amended: when CurrentBuild gives a build number above 0 the build
\* string is "{build}.{UBR}" if UBR can be read and "{build}" if not; when
\* CurrentBuild is missing, unparsable or 0 the build string is empty, UBR
\* present or not.
C13_BuildStringWhenKnown ==
    Collected => info.os.build_number = IF MachineBuild > 0 THEN FullBuild ELSE <<>>

\* CurrentBuild is missing, UBR is readable, and the build string is empty
C13_Witness ==
    /\ Collected
    /\ ~Stored(nt_path, "CurrentBuild")
    /\ ReadableDword(nt_path, "UBR")
    /\ info.os.build_number = <<>>

\* the descriptor the drive of index i gives (drives count from 0)
DriveData(i) == world.drives[i + 1].property.data

\* byte j (from 0) of the zero-initialised buffer the descriptor was written to
BufferAt(data, j) == IF j < Len(data) THEN data[j + 1] ELSE 0

\* the little-endian 32-bit field at offset o of the buffer
FieldAt(data, o) ==
    BufferAt(data, o) + 256 * BufferAt(data, o + 1) + 65536 * BufferAt(data, o + 2)
        + 16777216 * BufferAt(data, o + 3)

\* the names of bus-type codes 1..15
BusNames ==
    <<"SCSI", "ATAPI", "ATA", "1394", "SSA", "Fibre", "USB", "RAID", "iSCSI",
      "SAS", "SATA", "SD", "MMC", "Virtual", "FileBackedVirtual">>

BusName(n) ==
    IF n \in 1..15 THEN BusNames[n]
    ELSE IF n = 17 THEN "NVMe"
    ELSE "Unknown(" \o ToString(n) \o ")"

\* C14: the interface type parsed from a descriptor is the table's name for
\* its bus-type code (offset 28) when the code is 1..15 or 17 and
\* "Unknown(n)" for every other code n; no disk of the inventory has an
\* empty interface type.
C14_BusTypeTotal ==
    /\ pc = "disk_close"
           => hw.disk.interface_type = BusName(FieldAt(DriveData(hw.i), 28))
    /\ \A k \in 1..Len(hw.disks) : hw.disks[k].interface_type # ""
    /\ \A k \in 1..Len(info.disks) : info.disks[k].interface_type # ""

\* a descriptor with bus-type code 99 has been parsed and its disk emitted
C14_Witness ==
    /\ Collected
    /\ FieldAt(DriveData(0), 28) = 99
    /\ Len(info.disks) = 1
    /\ info.disks[1].interface_type = "Unknown(99)"

\* the text of the descriptor string at offset off: nothing when off is 0 or
\* beyond the buffer or no NUL follows, else the bytes up to the first NUL,
\* decoded and trimmed
FieldText(data, off) ==
    LET nuls == {j \in off..(DESCRIPTOR_BUFFER - 1) : BufferAt(data, j) = 0} IN
    IF off = 0 \/ off >= DESCRIPTOR_BUFFER \/ nuls = {} THEN <<>>
    ELSE trim(from_utf8_lossy([k \in 1..(Least(nuls) - off) |->
                                  BufferAt(data, off + k - 1)]))

\* the drive of index i answers the property query with a descriptor
Answers(i) ==
    /\ world.drives[i + 1].open = "ok"
    /\ world.drives[i + 1].property.ok
    /\ DriveData(i) # <<>>

\* its model, and its size as the length query gives it (0 when that fails)
DriveModel(i) == FieldText(DriveData(i), FieldAt(DriveData(i), 16))

DriveSize(i) ==
    IF world.drives[i + 1].length.ok THEN world.drives[i + 1].length.bytes
    ELSE <<0, 0, 0, 0, 0, 0, 0, 0>>

\* the drives that have a model or a size, in order
Emitted ==
    SelectSeq([i \in 1..DRIVE_LIMIT |-> i - 1],
              LAMBDA i : Answers(i) /\ (DriveModel(i) # <<>>
                                          \/ DriveSize(i) # <<0, 0, 0, 0, 0, 0, 0, 0>>))

\* C15: every disk of the inventory has a non-empty model or a non-zero
\* size, and the inventory holds, in order, exactly the drives that answered
\* the property query and have a model or a size, the size being 0 when the
\* length query failed.
C15_DiskFilter ==
    /\ \A k \in 1..Len(info.disks) :
           info.disks[k].model # <<>> \/ info.disks[k].size # <<0, 0, 0, 0, 0, 0, 0, 0>>
    /\ Collected =>
           /\ Len(info.disks) = Len(Emitted)
           /\ \A k \in 1..Len(Emitted) :
                  /\ info.disks[k].model = DriveModel(Emitted[k])
                  /\ info.disks[k].size = DriveSize(Emitted[k])

\* a drive with a model whose length query failed is in the inventory with
\* size 0
C15_Witness ==
    /\ Collected
    /\ Answers(0)
    /\ ~world.drives[1].length.ok
    /\ Len(info.disks) = 1
    /\ info.disks[1].model # <<>>
    /\ info.disks[1].size = <<0, 0, 0, 0, 0, 0, 0, 0>>

\* the units, and the number 1024^k in digits
UnitNames == <<<<32, 66, 121, 116, 101, 115>>, <<32, 75, 66>>, <<32, 77, 66>>, <<32, 71, 66>>, <<32, 84, 66>>>>

Power(k) == [i \in 1..LIMBS |-> IF i = k + 1 THEN 1 ELSE 0]

\* the largest k of 0..4 with 1024^k <= bytes: some digit from the k-th up
\* is not 0
LargestUnit(bytes) ==
    CHOOSE k \in 0..4 :
        /\ k = 0 \/ \E i \in (k + 1)..LIMBS : bytes[i] > 0
        /\ \A j \in (k + 1)..4 : \A i \in (j + 1)..LIMBS : bytes[i] = 0

EndsWith(t, suffix) ==
    Len(t) >= Len(suffix) /\ SubSeq(t, Len(t) - Len(suffix) + 1, Len(t)) = suffix

\* C16: format_bytes renders its argument in the largest of the units Bytes,
\* KB, MB, GB, TB that is not above it (the thresholds 1024^k included): an
\* argument below 1024 as the integer followed by " Bytes", and 1024^k, for
\* k = 1..4, as "1.00" followed by the unit.
C16_FormatBytesUnit ==
    pc = "format_bytes_return" =>
        /\ EndsWith(fmt.result, UnitNames[LargestUnit(fmt.bytes) + 1])
        /\ LargestUnit(fmt.bytes) = 0
               => fmt.result = IntToStr(fmt.bytes[1]) \o <<32, 66, 121, 116, 101, 115>>
        /\ \A k \in 1..4 :
               fmt.bytes = Power(k) => fmt.result = <<49, 46, 48, 48>> \o UnitNames[k + 1]

\* 1073741824 has been rendered as "1.00 GB"
C16_Witness ==
    /\ pc = "format_bytes_return"
    /\ fmt.bytes = Power(3)
    /\ fmt.result = <<49, 46, 48, 48, 32, 71, 66>>

\* the name of the processor of index i can be read
ProcessorReadable(i) == ReadableString(cpu_path(i), "ProcessorNameString")

\* the length of the run of readable processors from index 0, 256 at most
CoreRun ==
    LET gaps == {i \in 0..(PROCESSOR_LIMIT - 1) : ~ProcessorReadable(i)} IN
    IF gaps = {} THEN PROCESSOR_LIMIT ELSE Least(gaps)

\* the keys the collection in progress has asked to open
OpenedKeys == {calls[i].arg : i \in {j \in 1..Len(calls) : calls[j].api = "RegOpenKeyExW"}}

\* C17: the core count of the inventory is the length of the longest run of
\* processor indices 0, 1, 2, ... (256 at most) whose ProcessorNameString
\* can be read, 0 when index 0 cannot; the loop reads no index after the
\* first that cannot be read, and none from 256 on.
C17_CoreCountIsRun ==
    /\ rr.ret = "cpu_core"
           => \E i \in 0..CoreRun : i < PROCESSOR_LIMIT /\ rr.key = cpu_path(i)
    /\ Collected
           => \E run \in {CoreRun} :
                  /\ info.cpu.cores = run
                  /\ \A i \in (run + 1)..(PROCESSOR_LIMIT + 1) :
                         cpu_path(i) \notin OpenedKeys
                  /\ cpu_path(PROCESSOR_LIMIT) \notin OpenedKeys

\* processors 0 and 1 can be read, 2 cannot, 3 can: the count is 2 and
\* processor 3 was not asked for
C17_Witness ==
    /\ Collected
    /\ CoreRun = 2
    /\ ProcessorReadable(3)
    /\ info.cpu.cores = 2
    /\ CalledWith("RegOpenKeyExW", cpu_path(2))
    /\ ~CalledWith("RegOpenKeyExW", cpu_path(3))

\* the endpoints, and those a connection reaches
Endpoints == <<"223.5.5.5:53", "119.29.29.29:53", "8.8.8.8:53", "1.1.1.1:53">>

Reachable == {i \in 1..Len(Endpoints) : Endpoints[i] \in world.net}

\* the connections attempted by the collection in progress, in order
Attempts ==
    LET made == SelectSeq(calls, LAMBDA c : c.api = "connect_timeout") IN
    [i \in 1..Len(made) |-> made[i].arg]

\* C18: the endpoints are tried in list order; the detector stops at the
\* first that connects and reports online, and reports offline exactly when
\* it has tried all four and none connected.
C18_NetworkInOrder ==
    /\ pc \in {"network", "sys_return"}
           => /\ Len(Attempts) <= Len(Endpoints)
              /\ Attempts = SubSeq(Endpoints, 1, Len(Attempts))
              /\ \A i \in 1..(Len(Attempts) - 1) : i \notin Reachable
    /\ pc = "sys_return"
           => /\ loc.is_online = (Reachable # {})
              /\ Len(Attempts) = IF Reachable = {} THEN Len(Endpoints)
                                  ELSE Least(Reachable)
    /\ sysResult.ok => sysResult.val.is_online = (Reachable # {})

\* the first endpoint does not connect, the second does: two attempts, and
\* the reachable fourth endpoint is not tried
C18_Witness ==
    /\ pc = "sys_return"
    /\ Reachable = {2, 4}
    /\ Attempts = <<"223.5.5.5:53", "119.29.29.29:53">>
    /\ loc.is_online

\* the description of a display device: its wide characters up to the NUL
DeviceDescription(d) ==
    LET nul == {i \in 1..Len(d.DeviceString) : d.DeviceString[i] = 0} IN
    from_utf16_lossy(SubSeq(d.DeviceString, 1,
                            IF nul = {} THEN Len(d.DeviceString) ELSE Least(nul) - 1))

\* the devices that count as GPUs: active (bit 0 of the state flags), with a
\* description, and not a "Remote" one
IsGpu(d) ==
    /\ d.StateFlags % 2 = 1
    /\ DeviceDescription(d) # <<>>
    /\ ~contains(DeviceDescription(d), <<82, 101, 109, 111, 116, 101>>)

Gpus == SelectSeq(world.displays, IsGpu)

\* the indices EnumDisplayDevicesW was called with, in order
Enumerated ==
    LET made == SelectSeq(calls, LAMBDA c : c.api = "EnumDisplayDevicesW") IN
    [i \in 1..Len(made) |-> made[i].arg]

\* C19: the GPUs of the inventory are, in enumeration order, the display
\* devices that are active, have a non-empty description and are not
\* "Remote" ones, one record each; the enumeration goes from index 0 to the
\* first index without a device, whatever the devices on the way; a GPU
\* whose display settings cannot be read has an empty resolution and
\* refresh rate 0.
C19_GpuFilter ==
    Collected =>
        /\ Enumerated = [i \in 1..(Len(world.displays) + 1) |-> ToString(i - 1)]
        /\ Len(info.gpus) = Len(Gpus)
        /\ \A k \in 1..Len(Gpus) :
               /\ info.gpus[k].name = trim(DeviceDescription(Gpus[k]))
               /\ ~Gpus[k].settings.ok
                      => /\ info.gpus[k].current_resolution = <<>>
                         /\ info.gpus[k].refresh_rate = 0
               /\ Gpus[k].settings.ok
                      => info.gpus[k].refresh_rate = Gpus[k].settings.dmDisplayFrequency

\* of three devices the second is active but has no display settings: it is
\* a GPU of the inventory with no resolution, and the third follows it
C19_Witness ==
    /\ Collected
    /\ Len(world.displays) = 3
    /\ IsGpu(world.displays[2])
    /\ ~world.displays[2].settings.ok
    /\ Len(info.gpus) = 3
    /\ info.gpus[2].current_resolution = <<>>
    /\ info.gpus[3].current_resolution # <<>>

\* C20: parsing a descriptor never reads outside the 4096-byte buffer, and
\* each of model, serial number and firmware revision is empty when its
\* offset is 0 or at least 4096 or no NUL follows in the buffer, and
\* otherwise is the bytes from the offset to the first NUL, trimmed.
C20_FieldsBounded ==
    /\ pc # "panic"
    /\ pc = "disk_close" =>
           \E data \in {DriveData(hw.i)} :
               /\ hw.disk.model = FieldText(data, FieldAt(data, 16))
               /\ hw.disk.firmware_revision = FieldText(data, FieldAt(data, 20))
               /\ hw.disk.serial_number = FieldText(data, FieldAt(data, 24))

\* a product-id offset beyond the buffer has left the model empty, and the
\* serial number has been read
C20_Witness ==
    /\ pc = "disk_close"
    /\ FieldAt(DriveData(hw.i), 16) > DESCRIPTOR_BUFFER
    /\ hw.disk.model = <<>>
    /\ hw.disk.serial_number # <<>>

\* the descriptor of the drive of index i is malformed: one of its string
\* offsets (product id, revision, serial number) points outside the buffer
Malformed(i) ==
    /\ Answers(i)
    /\ \E o \in {16, 20, 24} : FieldAt(DriveData(i), o) >= DESCRIPTOR_BUFFER

\* C21: a drive whose descriptor is malformed (a string offset outside the
\* buffer) gives no disk record, like a drive that cannot be reached: the
\* inventory has no more disks than drives with a well-formed descriptor.
C21_MalformedSkipped ==
    Collected =>
        Len(info.disks) <= Cardinality({i \in 0..(DRIVE_LIMIT - 1) :
                                          Answers(i) /\ ~Malformed(i)})

\* C22: a UEFISecureBootEnabled value whose declared type is not REG_DWORD
\* gives secure_boot = false, and a SpecVersion value whose declared type is
\* not REG_SZ is not decoded: the TPM version is then the fallback "2.0".
C22_WrongTypeAbsent ==
    /\ (/\ pc = "network"
        /\ Stored(KEY_SECURE_BOOT, "UEFISecureBootEnabled")
        /\ StoredValue(KEY_SECURE_BOOT, "UEFISecureBootEnabled").type # REG_DWORD)
           => ~loc.secure_boot
    /\ (/\ pc = "secure_boot_open"
        /\ loc.tpm_enabled
        /\ Stored(KEY_TPM_SOFTWARE, "SpecVersion")
        /\ StoredValue(KEY_TPM_SOFTWARE, "SpecVersion").type # REG_SZ)
           => loc.tpm_version = Version20

\* the arguments of the calls of api made by the collection in progress
ArgsOf(api) ==
    LET made == SelectSeq(calls, LAMBDA c : c.api = api) IN
    [i \in 1..Len(made) |-> made[i].arg]

\* C23: every collection opens the 16 drives \\.\PhysicalDrive0..15 in
\* ascending order; a drive that does not open, or whose property query
\* fails or returns nothing, gets no length query and no record but does
\* not end the scan; the records are those of the drives that qualify, in
\* ascending order of index, 16 at most.
C23_AllDrivesProbed ==
    Collected =>
        /\ ArgsOf("CreateFileW") = [i \in 1..DRIVE_LIMIT |-> drive_path(i - 1)]
        /\ \A i \in 0..(DRIVE_LIMIT - 1) :
               /\ world.drives[i + 1].open # "ok"
                      => ~CalledWith("IOCTL_STORAGE_QUERY_PROPERTY", drive_path(i))
               /\ ~Answers(i)
                      => ~CalledWith("IOCTL_DISK_GET_LENGTH_INFO", drive_path(i))
        /\ Len(info.disks) <= DRIVE_LIMIT
        /\ Len(info.disks) = Len(Emitted)
        /\ \A k \in 1..Len(Emitted) :
               /\ info.disks[k].model = DriveModel(Emitted[k])
               /\ info.disks[k].size = DriveSize(Emitted[k])

\* drive 0 is absent, drive 1 is an NVMe disk, drive 2 does not open and
\* drive 4 is a USB stick: the inventory has the disk, then the stick
C23_Witness ==
    /\ Collected
    /\ Emitted = <<1, 4>>
    /\ world.drives[3].open = "fail"
    /\ Len(info.disks) = 2
    /\ info.disks[1].interface_type = "NVMe"
    /\ info.disks[2].model = <<85, 83, 66>>

\* the wide characters a string value holds, one trailing NUL stripped
WideStripped(data) ==
    LET wide == [i \in 1..(Len(data) \div 2) |-> BufWide(data, i)] IN
    IF wide # <<>> /\ wide[Len(wide)] = 0 THEN SubSeq(wide, 1, Len(wide) - 1)
    ELSE wide

\* C24: for a REG_SZ value that fits the buffer read_registry_string returns
\* the stored wide characters, less one trailing NUL when there is one and
\* with no other character removed; a value that is only the NUL is
\* returned as the empty string.  (Stated for data of whole wide
\* characters, an even number of bytes.)
C24_OneNulStripped ==
    (/\ ReturnedFrom("read_registry_string")
     /\ ReadableString(rr.key, rr.name)
     /\ Len(StoredValue(rr.key, rr.name).data) % 2 = 0) =>
        /\ rr.result.some
        /\ rr.result.val = from_utf16_lossy(WideStripped(StoredValue(rr.key, rr.name).data))

\* the endpoints check_network attempted that never answered
TimedOut == {i \in 1..Len(Attempts) : Attempts[i] \in world.silent}

\* C25 as stated: the network probe blocks the collection for at most 2
\* seconds in total before SystemInfo::collect goes on.
C25_ProbeWithinTwoSeconds ==
    pc = "sys_return" => loc.elapsed <= CONNECT_TIMEOUT

\* C25: the network probe blocks the collection for at most 2 seconds for
\* each endpoint it attempts: 2 seconds for every attempted endpoint that
\* never answers, nothing for one that accepts or refuses, hence at most 8
\* seconds over the four endpoints.
C25_ProbeWithinTimeoutEach ==
    pc = "sys_return" =>
        /\ loc.elapsed = CONNECT_TIMEOUT * Cardinality(TimedOut)
        /\ loc.elapsed <= CONNECT_TIMEOUT * Len(Attempts)
        /\ loc.elapsed <= CONNECT_TIMEOUT * Len(Endpoints)

C25_Witness ==
    /\ pc = "sys_return"
    /\ Len(Attempts) = Len(Endpoints)
    /\ \A i \in 1..Len(Endpoints) : Endpoints[i] \in world.silent
    /\ loc.elapsed = 8
    /\ ~loc.is_online

\* C27: at every point of a HardwareInfo or SystemInfo collection at most one
\* handle, registry key or device, is open: every handle opened before the
\* latest one has been closed, and a handle is open only between the open and
\* the close of one detector step, where it is the one the step holds.
C27_OneHandleAtATime ==
    /\ OpenCount <= 1
    /\ \A i \in 1..Len(handles) :
           handles[i].state = "open" =>
               /\ i = Len(handles)
               /\ i = hkey
               /\ pc \in HoldingPcs

\* a later detector holds its handle while the handles of earlier detectors,
\* a registry key among them, are all closed
C27_Witness ==
    /\ pc = "disk_property"
    /\ OpenCount = 1
    /\ handles[Len(handles)] = [kind |-> "device", state |-> "open"]
    /\ \E i \in 1..(Len(handles) - 1) :
           handles[i] = [kind |-> "key", state |-> "closed"]

\* C28: in every SystemInfo snapshot the TPM version string is empty if and
\* only if tpm_enabled is false: whenever the TPM is reported present the
\* version is not empty, whatever the SpecVersion value holds.
C28_VersionEmptyIffAbsent ==
    sysResult.ok =>
        (sysResult.val.tpm_version = <<>> <=> ~sysResult.val.tpm_enabled)

\* C29: every GpuInfo record of a collected inventory has a name that is not
\* empty and does not contain "Remote", whatever descriptions the display
\* enumeration returns.
C29_GpuNamesMeaningful ==
    Collected =>
        \A k \in 1..Len(info.gpus) :
            /\ info.gpus[k].name # <<>>
            /\ ~contains(info.gpus[k].name, Remote)

\* refresh_all_info has returned
Refreshed == app.step = "idle" /\ app.ran # <<>>

\* C26: refresh_all_info replaces the snapshots wholesale and independently:
\* once it has returned, each of the three values held is the whole result of
\* its fresh collection when that returned Ok and exactly the value held
\* before when it returned Err, never a mix, and a failed collection leaves
\* the other two refreshed; the collections run in the order system
\* environment, hardware inventory, partitions, each value being replaced
\* before the next collection is called.
C26_RefreshWholesale ==
    /\ Len(app.ran) <= Len(RefreshOrder)
    /\ \A k \in 1..Len(app.ran) : app.ran[k] = RefreshOrder[k]
    /\ app.step = "system" =>
           /\ app.ran = <<"system">>
           /\ app.system_info = app.before.system_info
    /\ app.step \in {"hardware", "partitions"} \/ Refreshed =>
           app.system_info = IF sysResult.ok THEN Present(sysResult.val)
                             ELSE app.before.system_info
    /\ app.step \in {"system", "hardware"} =>
           app.hardware_info = app.before.hardware_info
    /\ app.step = "partitions" \/ Refreshed =>
           app.hardware_info = IF hwResult.ok THEN Present(hwResult.val)
                               ELSE app.before.hardware_info
    /\ app.step \in {"system", "hardware", "partitions"} =>
           app.partitions = app.before.partitions
    /\ Refreshed =>
           /\ app.ran = RefreshOrder
           /\ app.partitions = IF app.result.ok THEN app.result.val
                               ELSE app.before.partitions

\* a refresh has returned with the partition collection failed: the old
\* partition list is kept while both snapshots are the fresh ones, which
\* differ from those held before
C26_Witness ==
    /\ Refreshed
    /\ ~app.result.ok
    /\ app.partitions = <<PartitionC, PartitionD>>
    /\ app.before.system_info = Present(OldSystemInfo)
    /\ app.before.hardware_info = Present(OldHardwareInfo)
    /\ app.system_info = Present(sysResult.val)
    /\ app.system_info # app.before.system_info
    /\ app.hardware_info = Present(hwResult.val)
    /\ app.hardware_info # app.before.hardware_info

====
